---- MODULE Spec2Model ----
(***************************************************************************)
(* A model of ECST, the multithreaded Entity-Component-System library      *)
(* described by the thesis: the "atomic counter" system scheduler with its *)
(* thread pool and counter_blocker latches, the step / refresh flow over   *)
(* the entity metadata storage, and the sparse integer set.                *)
(*                                                                         *)
(* Three specifications share the variables:                               *)
(*   SpecSched   one execute_systems_from call on a dependency DAG         *)
(*   SpecEcs     steps and refreshes over entities, components, systems    *)
(*   SpecSparse  add / remove on one sparse integer set                    *)
(***************************************************************************)
EXTENDS Integers, Sequences, FiniteSets, Bags, TLC

(***************************************************************************)
(* Bounds of the model.                                                    *)
(***************************************************************************)
\* Number of thread pool workers.
NumWorkers == 2
\* Largest number of subtasks an inner parallelism strategy produces.
MaxSubtasks == 2
\* std::size_t counters wrap modulo 2^64; the model keeps the wrap with a
\* smaller modulus (no counter of a run comes near it except by wrapping).
CounterRange == 65536
\* Sparse integer sets hold integers of [0, Universe).
Universe == 4
\* Entity ids of the (fixed) entity storage are [0, Capacity).
Capacity == 1
\* Number of component types of the context.
NumComponents == 2
\* Most deferred functions one execution of a system pushes.
MaxDeferred == 1
\* Most entities one execution of a system marks as dead.
MaxKills == 1
\* Most context::step calls made.
MaxSteps == 3
\* Most context::step calls open at once (a step opened in a step body).
MaxDepth == 2
\* Most handles created.
MaxHandles == 1
MaxPushed == 2
MaxDecrements == 3
MaxTasks == 2
\* Queued dummy tasks are counted up to MaxDummies (MaxDummies or more).
MaxDummies == 16
\* Most workers of a thread pool that is destroyed.
MaxPoolWorkers == 3
\* The particles init_ctx makes (initial_particle_count).
BenchN == 1
\* The spawns of the particles init_ctx makes (300 in the benchmark).
BenchSpawns == 1
\* The waves that follow the first one (remaining_waves, 2 in the
\* benchmark).
BenchWaves == 1

VARIABLES
    \* ---- scheduler (SpecSched) ----
    deps,        \* deps[s]: the systems s depends on (system signature)
    roots,       \* the start systems handed to execute_systems_from
    nsub,        \* nsub[s]: subtask count the parallel executor produces
    queue,       \* thread pool task queue, a bag of tasks
    wk,          \* wk[w]: what worker w is doing
    latch,       \* counter of the scheduler's counter_blocker b
    inner,       \* inner[w]: counter of the counter_blocker of the system
                 \* execution worker w is running
    remaining,   \* remaining[s]: remaining dependencies of task s
    pcMain,      \* the thread that called atomic_counter::execute
    active,      \* active[s]: subtask bodies of s now executing
    started,     \* started[s]: times task::run began executing s
    finished,    \* finished[s]: times s_instance.execute returned for s
    submitted,   \* submitted[s]: times task s was posted in the thread pool
    assertFailed,\* an "assert(x_c > 0)" of a decrement was violated
    failing,     \* the systems whose processing function may throw
    \* ---- sparse integer set (SpecSparse) ----
    ssD,         \* dense array D
    ssS,         \* sparse array S
    ssLast,      \* last: the index of D that add writes and remove reads
    ssMembers,   \* the integers added and not removed since
    ssFault,     \* an operation indexed D or S out of bounds
    \* ---- context: entities, components, steps (SpecEcs) ----
    metadata,    \* metadata[e]: [bitset, counter] of entity id e
    free_ids,    \* entity ids available to create_entity
    storage,     \* storage[k]: the entity ids component k holds data for
    spawns,      \* spawns[e]: _spawns of the component life of entity e
    subscribed,  \* subscribed[i]: entity ids subscribed to instance i
    states,      \* states[i]: [to_kill, deferred] subtask state of i
    refresh_state,\* [to_kill, to_match] of the context
    stack,       \* the open context::step calls, innermost last
    handles,     \* the handles returned by create_handle so far
    stale,       \* the handles whose entity was reclaimed since
    lastStep,    \* the stages the last finished step went through
    refreshed,   \* the last thing the context did was finish a refresh
    opFault,     \* a critical operation was called out of contract
    steps,       \* number of context::step calls made so far
    dead,        \* history: entities marked as dead and not reclaimed since
    created,     \* history: what the create_entity call just made
                 \* returned, "none" after any other operation
    observing,   \* history is recorded (fixed by the initial state)
    pair,        \* history: an add_component and the remove_component of
                 \* the same component and entity that followed it
    snap,        \* history: the context when the latest step began, and
                 \* whether its body has performed no operation
    \* ---- counter_blocker (SpecLatch) ----
    cbCounter,   \* _counter
    cbMutex,     \* holder of _mutex: NoThread, WaiterThread or a decrementer
    cbNotify,    \* "one" or "all": the decrement function the threads call
    cbBlocked,   \* the threads blocked in _cv.wait
    cbAssert,    \* assert(x_c > 0) failed
    waiterPc,    \* where the caller of execute_and_wait_until_zero is
    decPc,       \* decPc[d]: where decrementing thread d is
    \* ---- thread pool (SpecPool) ----
    plQueue,     \* tasks in the queue: [task, dummy] counts
    plState,     \* plState[w]: _state of worker w
    plPc,        \* plPc[w]: where the thread of worker w is
    plMain,      \* where the owner of the pool is
    plJoined,    \* the workers whose threads were joined
    \* ---- creation/destruction benchmark (SpecBench) ----
    benchAt,     \* where the thread that runs the benchmark is
    benchStepped,\* it has called ctx.step since it got there
    remaining_waves,
    initial_particle_count,
    running      \* _running

schedVars == <<deps, roots, nsub, queue, wk, latch, inner, remaining, pcMain,
               active, started, finished, submitted, assertFailed, failing>>

sparseVars == <<ssD, ssS, ssLast, ssMembers, ssFault>>

ecsVars == <<metadata, free_ids, storage, spawns, subscribed, states, refresh_state,
             stack, handles, stale, lastStep, refreshed, opFault, steps,
             dead, created, observing, pair, snap>>

latchVars == <<cbCounter, cbMutex, cbNotify, cbBlocked, cbAssert, waiterPc,
               decPc>>

poolVars == <<plQueue, plState, plPc, plMain, plJoined>>

benchVars == <<benchAt, benchStepped, remaining_waves, initial_particle_count,
               running>>

\* What the actions of one part of the model leave alone.
exceptSched == <<sparseVars, ecsVars, latchVars, poolVars,
    benchVars>>
exceptSparse == <<schedVars, ecsVars, latchVars, poolVars,
    benchVars>>
exceptEcs == <<schedVars, sparseVars, latchVars, poolVars,
    benchVars>>
exceptLatch == <<schedVars, sparseVars, ecsVars, poolVars,
    benchVars>>

exceptPool == <<schedVars, sparseVars, ecsVars, latchVars,
    benchVars>>

exceptBench == <<schedVars, sparseVars, ecsVars, latchVars,
                 poolVars>>

vars == <<schedVars, sparseVars, ecsVars, latchVars, poolVars,
          benchVars>>

(***************************************************************************)
(* Helpers.                                                                *)
(***************************************************************************)
\* --x on a std::size_t.
Decrement(x) == (x - 1) % CounterRange

RECURSIVE DescendingSeq(_)
\* The elements of a finite set of integers, largest first.
DescendingSeq(S) ==
    IF S = {} THEN <<>>
    ELSE LET m == CHOOSE x \in S : \A y \in S : y <= x
         IN  <<m>> \o DescendingSeq(S \ {m})

SeqToSet(q) == {q[i] : i \in 1..Len(q)}

(***************************************************************************)
(* System signature lists: the dependency DAG.                             *)
(***************************************************************************)
Systems == 1..4
Workers == 1..NumWorkers

\* Edges <<u, v>>: v depends on u.  Systems are numbered in an order
\* compatible with the dependencies, so every edge set is acyclic.
AllEdges == {e \in Systems \X Systems : e[1] < e[2]}

DepsOf(E) == [s \in Systems |-> {u \in Systems : <<u, s>> \in E}]

\* A list of the systems `parent` depends on, instead of its dependents.
dependent_ids_list_dependencies(d, parent) == DescendingSeq(d[parent])

\* dependent_ids_list: fold_right over the signature list, appending every
\* system that has `parent` among its dependencies (so: last system first).
dependent_ids_list(d, parent) ==
    DescendingSeq({s \in Systems : parent \in d[s]})

RECURSIVE bf_traversal(_, _, _)
\* bf_traversal::execute / step_forward on the BFT context (queue, visited):
\* returns the list of traversed nodes.
bf_traversal(d, q, visited) ==
    IF q = <<>> THEN <<>>
    ELSE LET top == Head(q)
             neighbors == dependent_ids_list(d, top)
             unvisited == SelectSeq(neighbors, LAMBDA x : x \notin SeqToSet(visited))
         IN  Append(bf_traversal(d, Tail(q) \o unvisited, visited \o unvisited), top)

\* A chain size that counts the whole system signature list.
chain_size_whole_list(d, R) == Cardinality(Systems)

\* signature_list::system::chain_size(ssl, sstl)
chain_size(d, R) == Len(bf_traversal(d, DescendingSeq(R), <<>>))

RECURSIVE ReachableFrom(_, _)
\* Systems reachable from the set R along dependent edges.
ReachableFrom(d, R) ==
    LET more == R \cup {s \in Systems : d[s] \cap R # {}}
    IN  IF more = R THEN R ELSE ReachableFrom(d, more)

\* u and v are joined by a path of dependencies (in either direction).
HasPath(d, u, v) == v \in ReachableFrom(d, {u}) \/ u \in ReachableFrom(d, {v})

\* Start systems must be independent of each other.
Independent(d, R) == \A u, v \in R : u # v => ~HasPath(d, u, v)

\* remaining_deps of a task at the start of execute_systems_from: its
\* in-degree within the subgraph reachable from the roots.
initial_remaining(d, R) ==
    [s \in Systems |-> Cardinality(d[s] \cap ReachableFrom(d, R))]

(***************************************************************************)
(* Component access of the systems: system s writes its own component     *)
(* kind s and reads the kinds written by its dependencies.                 *)
(***************************************************************************)
writes(s) == {s}
reads(d, s) == d[s]

\* One of u, v writes a kind the other reads or writes.
Conflict(d, u, v) ==
    \/ writes(u) \cap (reads(d, v) \cup writes(v)) # {}
    \/ writes(v) \cap (reads(d, u) \cup writes(u)) # {}

\* The construction check: systems without a path between them do not
\* conflict.
Accepted(d) ==
    \A u, v \in Systems : (u # v /\ ~HasPath(d, u, v)) => ~Conflict(d, u, v)

(***************************************************************************)
(* Tasks of the thread pool.                                               *)
(***************************************************************************)
RunTask(s) == [kind |-> "run", sid |-> s, idx |-> 0, owner |-> 0]
SubTask(s, i, w) == [kind |-> "sub", sid |-> s, idx |-> i, owner |-> w]

Idle == [pc |-> "idle", sid |-> 0, idx |-> 0, owner |-> 0, todo |-> <<>>]

\* ctx.post_in_thread_pool for every task of the set T.
post_in_thread_pool(q, T) == q (+) SetToBag(T)

(***************************************************************************)
(* The dependency DAGs and start systems the scheduler is run on.          *)
(***************************************************************************)
Dags == SUBSET AllEdges

SchedStart ==
    /\ \E E \in Dags : deps = DepsOf(E)
    /\ Accepted(deps)
    /\ roots \in {R \in SUBSET Systems : Independent(deps, R)}
    /\ nsub \in [Systems -> 1..MaxSubtasks]
    /\ queue = EmptyBag
    /\ wk = [w \in Workers |-> Idle]
    /\ latch = 0
    /\ inner = [w \in Workers |-> 0]
    /\ remaining = [s \in Systems |-> 0]
    /\ pcMain = "init"
    /\ active = [s \in Systems |-> 0]
    /\ started = [s \in Systems |-> 0]
    /\ finished = [s \in Systems |-> 0]
    /\ submitted = [s \in Systems |-> 0]
    /\ assertFailed = FALSE

\* atomic_counter::execute: count the chain, build the counter_blocker,
\* start_execution posts one task per start system, then the caller waits.
Execute ==
    /\ pcMain = "init"
    /\ latch' = chain_size(deps, roots)
    /\ remaining' = initial_remaining(deps, roots)
    /\ queue' = post_in_thread_pool(queue, {RunTask(s) : s \in roots})
    /\ submitted' = [s \in Systems |-> IF s \in roots THEN 1 ELSE 0]
    /\ pcMain' = "waiting"
    /\ UNCHANGED exceptSched
    /\ UNCHANGED <<failing, deps, roots, nsub, wk, inner, active, started, finished,
                   assertFailed>>

\* execute_and_wait_until_counter_zero: cv.wait returns once the counter
\* is zero.
Return ==
    /\ pcMain = "waiting"
    /\ latch = 0
    /\ pcMain' = "returned"
    /\ UNCHANGED exceptSched
    /\ UNCHANGED <<failing, deps, roots, nsub, queue, wk, latch, inner, remaining,
                   active, started, finished, submitted, assertFailed>>

\* A counter_blocker that leaves out one more subtask.
blocker_count_one_short(n) == n - 2

\* prepare_and_wait_n_subtasks: counter_blocker b{n - 1}, the subtasks the
\* caller waits for.
blocker_count(n) == n - 1

\* worker::run dequeues a system task: task::run calls s_instance.execute,
\* and prepare_and_wait_n_subtasks builds a counter_blocker of n - 1, posts
\* n - 1 subtasks and runs the last one in the current thread.
DequeueRun(w, s) ==
    /\ wk[w].pc = "idle"
    /\ pcMain # "terminated"
    /\ BagIn(RunTask(s), queue)
    /\ LET n == nsub[s]
       IN  /\ queue' = post_in_thread_pool(queue (-) SetToBag({RunTask(s)}),
                           {SubTask(s, i, w) : i \in 0..(n - 2)})
           /\ inner' = [inner EXCEPT ![w] = blocker_count(n)]
           /\ wk' = [wk EXCEPT ![w] = [pc |-> "own", sid |-> s, idx |-> n - 1,
                                      owner |-> w, todo |-> <<>>]]
    /\ active' = [active EXCEPT ![s] = @ + 1]
    /\ started' = [started EXCEPT ![s] = @ + 1]
    /\ UNCHANGED exceptSched
    /\ UNCHANGED <<failing, deps, roots, nsub, latch, remaining, pcMain, finished,
                   submitted, assertFailed>>

\* worker::run dequeues a subtask posted by run_in_separate_thread: the
\* bound slice starts executing.
DequeueSub(w, t) ==
    /\ wk[w].pc = "idle"
    /\ pcMain # "terminated"
    /\ t.kind = "sub"
    /\ BagIn(t, queue)
    /\ queue' = queue (-) SetToBag({t})
    /\ wk' = [wk EXCEPT ![w] = [pc |-> "sub", sid |-> t.sid, idx |-> t.idx,
                               owner |-> t.owner, todo |-> <<>>]]
    /\ active' = [active EXCEPT ![t.sid] = @ + 1]
    /\ UNCHANGED exceptSched
    /\ UNCHANGED <<failing, deps, roots, nsub, latch, inner, remaining, pcMain,
                   started, finished, submitted, assertFailed>>

\* The subtask run in the thread of task::run returns; the thread enters
\* cv.wait of the inner counter_blocker.
EndOwn(w) ==
    /\ wk[w].pc = "own"
    /\ pcMain # "terminated"
    /\ wk' = [wk EXCEPT ![w].pc = "wait"]
    /\ active' = [active EXCEPT ![wk[w].sid] = @ - 1]
    /\ UNCHANGED exceptSched
    /\ UNCHANGED <<failing, deps, roots, nsub, queue, latch, inner, remaining, pcMain,
                   started, finished, submitted, assertFailed>>

\* The body of a subtask run by a pool worker returns.
EndSub(w) ==
    /\ wk[w].pc = "sub"
    /\ pcMain # "terminated"
    /\ wk' = [wk EXCEPT ![w].pc = "subdec"]
    /\ active' = [active EXCEPT ![wk[w].sid] = @ - 1]
    /\ UNCHANGED exceptSched
    /\ UNCHANGED <<failing, deps, roots, nsub, queue, latch, inner, remaining, pcMain,
                   started, finished, submitted, assertFailed>>

\* b.decrement_and_notify_all() of a pool subtask.  The mutex of the inner
\* counter_blocker is held by the thread of task::run until that thread
\* waits on the condition variable.
SubDecrement(w) ==
    /\ wk[w].pc = "subdec"
    /\ pcMain # "terminated"
    /\ wk[wk[w].owner].pc = "wait"
    /\ inner' = [inner EXCEPT ![wk[w].owner] = Decrement(@)]
    /\ assertFailed' = (assertFailed \/ inner[wk[w].owner] = 0)
    /\ wk' = [wk EXCEPT ![w] = Idle]
    /\ UNCHANGED exceptSched
    /\ UNCHANGED <<failing, deps, roots, nsub, queue, latch, remaining, pcMain, active,
                   started, finished, submitted>>

\* An adapter that posts the dependents of the system as soon as its last
\* subtask has returned.
AfterSubtasks_releases(w) ==
    /\ wk[w].pc = "wait"
    /\ pcMain # "terminated"
    /\ inner[w] = 0
    /\ wk' = [wk EXCEPT ![w].pc = "post"]
    /\ queue' = post_in_thread_pool(queue,
                    {RunTask(d) : d \in SeqToSet(dependent_ids_list(deps, wk[w].sid))})
    /\ UNCHANGED exceptSched
    /\ UNCHANGED <<failing, deps, roots, nsub, latch, inner, remaining,
                   pcMain, active, started, finished, submitted, assertFailed>>

\* A detailed_instance adapter: the subtasks the executor ran have all
\* returned (the inner counter is zero), the adapter goes on in the thread
\* of task::run with the code that follows executor.for_subtasks
\* (instance.for_outputs).
AfterSubtasks(w) ==
    /\ wk[w].pc = "wait"
    /\ pcMain # "terminated"
    /\ inner[w] = 0
    /\ wk' = [wk EXCEPT ![w].pc = "post"]
    /\ UNCHANGED exceptSched
    /\ UNCHANGED <<failing, deps, roots, nsub, queue, latch, inner, remaining,
                   pcMain, active, started, finished, submitted, assertFailed>>

\* What the memory of a destroyed counter_blocker may hold after a
\* decrement of it: the decremented value, or anything else.
destroyed_counter(c) == {Decrement(c)} \cup 0..Cardinality(Systems)

\* The inner counter is zero and the adapter has returned (at once, or
\* after the code that follows executor.for_subtasks): s_instance.execute
\* returns and task::run decrements the "remaining systems" counter.  The
\* counter_blocker b is a local of atomic_counter::execute: once execute
\* has returned b is destroyed and the decrement is undefined behaviour,
\* which leaves any value where the counter was, with the assertion
\* x_c > 0 passing or failing, or terminates the process.
FinishSystem(w) ==
    /\ wk[w].pc \in {"wait", "post"}
    /\ pcMain # "terminated"
    /\ inner[w] = 0
    /\ pcMain # "init"
    /\ finished' = [finished EXCEPT ![wk[w].sid] = @ + 1]
    /\ IF pcMain = "returned"
       THEN \/ /\ latch' \in destroyed_counter(latch)
               /\ \E a \in BOOLEAN : assertFailed' = (assertFailed \/ a)
               /\ UNCHANGED pcMain
            \/ /\ pcMain' = "terminated"
               /\ UNCHANGED <<latch, assertFailed>>
       ELSE /\ latch' = Decrement(latch)
            /\ assertFailed' = (assertFailed \/ latch = 0)
            /\ UNCHANGED pcMain
    /\ LET todo == dependent_ids_list(deps, wk[w].sid)
       IN  wk' = [wk EXCEPT ![w] = IF todo = <<>> THEN Idle
                                   ELSE [@ EXCEPT !.pc = "dec", !.todo = todo]]
    /\ UNCHANGED exceptSched
    /\ UNCHANGED <<failing, deps, roots, nsub, queue, inner, remaining, active,
                   started, submitted>>

\* dt.decrement_remaining_dependencies()
DecrementDependent(w) ==
    /\ wk[w].pc = "dec"
    /\ pcMain # "terminated"
    /\ remaining' = [remaining EXCEPT ![Head(wk[w].todo)] = Decrement(@)]
    /\ wk' = [wk EXCEPT ![w].pc = "chk"]
    /\ UNCHANGED exceptSched
    /\ UNCHANGED <<failing, deps, roots, nsub, queue, latch, inner, pcMain, active,
                   started, finished, submitted, assertFailed>>

\* if(dt.remaining_dependencies() == 0) post dt.run in the thread pool;
\* then the next dependent id.
CheckDependent(w) ==
    /\ wk[w].pc = "chk"
    /\ pcMain # "terminated"
    /\ LET d == Head(wk[w].todo)
           rest == Tail(wk[w].todo)
       IN  /\ IF remaining[d] = 0
              THEN /\ queue' = post_in_thread_pool(queue, {RunTask(d)})
                   /\ submitted' = [submitted EXCEPT ![d] = @ + 1]
              ELSE UNCHANGED <<queue, submitted>>
           /\ wk' = [wk EXCEPT ![w] = IF rest = <<>> THEN Idle
                                      ELSE [@ EXCEPT !.pc = "dec", !.todo = rest]]
    /\ UNCHANGED exceptSched
    /\ UNCHANGED <<failing, deps, roots, nsub, latch, inner, remaining, pcMain, active,
                   started, finished, assertFailed>>

\* The processing function of a system of failing throws in the thread of
\* worker w: nothing catches the exception in task::run or worker::run, it
\* leaves the thread function and the process is terminated.
BodyThrows(w) ==
    /\ wk[w].pc \in {"own", "sub"}
    /\ wk[w].sid \in failing
    /\ pcMain # "terminated"
    /\ pcMain' = "terminated"
    /\ UNCHANGED exceptSched
    /\ UNCHANGED <<failing, deps, roots, nsub, queue, wk, latch, inner,
                   remaining, active, started, finished, submitted,
                   assertFailed>>

NextSched ==
    \/ Execute
    \/ Return
    \/ \E w \in Workers, s \in Systems : DequeueRun(w, s)
    \/ \E w \in Workers : \E t \in BagToSet(queue) : DequeueSub(w, t)
    \/ \E w \in Workers : EndOwn(w)
    \/ \E w \in Workers : EndSub(w)
    \/ \E w \in Workers : SubDecrement(w)
    \/ \E w \in Workers : FinishSystem(w)
    \/ \E w \in Workers : DecrementDependent(w)
    \/ \E w \in Workers : CheckDependent(w)

(***************************************************************************)
(* The particle simulation: the systems of its signature list that the     *)
(* claims are about.  The other systems form one chain, acceleration ->    *)
(* velocity -> keep_in_bounds before spatial_partition and solve_contacts  *)
(* -> render_colored_circle after collision.                               *)
(***************************************************************************)
particle == [spatial_partition |-> 1, collision |-> 2, life |-> 3, fade |-> 4]

\* The dependencies make_ssl declares: collision depends on
\* spatial_partition; ss_life and ss_fade declare no dependency.
ParticleDeps ==
    [s \in Systems |->
        IF s = particle.collision THEN {particle.spatial_partition} ELSE {}]

\* The systems update_ctx executes with a detailed_instance adapter; the
\* others are executed with for_subtasks.  s.clear_cells() runs in the
\* thread of task::run before the subtasks are posted (in DequeueRun).
Detailed == {particle.spatial_partition}

\* proxy.execute_systems() of update_ctx.
NextParticle ==
    \/ Execute
    \/ Return
    \/ \E w \in Workers, s \in Systems : DequeueRun(w, s)
    \/ \E w \in Workers : \E t \in BagToSet(queue) : DequeueSub(w, t)
    \/ \E w \in Workers : EndOwn(w)
    \/ \E w \in Workers : EndSub(w)
    \/ \E w \in Workers : SubDecrement(w)
    \/ \E w \in Workers : wk[w].sid \in Detailed /\ AfterSubtasks(w)
    \/ \E w \in Workers :
          /\ wk[w].sid \in Detailed => wk[w].pc = "post"
          /\ FinishSystem(w)
    \/ \E w \in Workers : DecrementDependent(w)
    \/ \E w \in Workers : CheckDependent(w)

\* An execution in which processing functions may throw.
NextFail ==
    \/ NextSched
    \/ \E w \in Workers : BodyThrows(w)

(***************************************************************************)
(* Sparse integer set.                                                     *)
(***************************************************************************)
\* The null value of the sparse array.
Null == -1

Range == 0..(Universe - 1)

\* Operation: contains.  S_i is not null.
ss_contains(S, i) == S[i] # Null

SparseEmpty ==
    /\ ssD = [j \in Range |-> Null]
    /\ ssS = [i \in Range |-> Null]
    /\ ssLast = 0
    /\ ssMembers = {}
    /\ ssFault = FALSE

\* SparseIntSet - AddInteger: do nothing if i is in the set; else
\* D[last] <- i and S[i] <- last.  last is left as it is.
ss_add(D, S, last, i) ==
    IF ss_contains(S, i)
    THEN [D |-> D, S |-> S, last |-> last]
    ELSE [D |-> [D EXCEPT ![last] = i],
          S |-> [S EXCEPT ![i] = last],
          last |-> last]

\* SparseIntSet - RemoveInteger: do nothing if i is not in the set; else
\* iPtr <- S[i]; if D[last] # D[iPtr] then D[iPtr] <- D[last] and
\* S[last] <- iPtr; then S[i] <- null and --last.
ss_remove(D, S, last, i) ==
    IF ~ss_contains(S, i)
    THEN [D |-> D, S |-> S, last |-> last]
    ELSE LET iPtr == S[i]
             swap == D[last] # D[iPtr]
             D1 == IF swap THEN [D EXCEPT ![iPtr] = D[last]] ELSE D
             S1 == IF swap THEN [S EXCEPT ![last] = iPtr] ELSE S
         IN  [D |-> D1, S |-> [S1 EXCEPT ![i] = Null], last |-> last - 1]

\* The array accesses of add and of remove stay within [0, Universe).
AddInBounds(S, last, i) == ss_contains(S, i) \/ last \in Range
RemoveInBounds(S, last, i) ==
    ~ss_contains(S, i) \/ (last \in Range /\ S[i] \in Range)

SsAdd(i) ==
    /\ ~ssFault
    /\ IF AddInBounds(ssS, ssLast, i)
       THEN LET r == ss_add(ssD, ssS, ssLast, i)
            IN  /\ ssD' = r.D
                /\ ssS' = r.S
                /\ ssLast' = r.last
                /\ ssFault' = FALSE
       ELSE /\ ssFault' = TRUE
            /\ UNCHANGED <<ssD, ssS, ssLast>>
    /\ ssMembers' = ssMembers \cup {i}
    /\ UNCHANGED exceptSparse

SsRemove(i) ==
    /\ ~ssFault
    /\ IF RemoveInBounds(ssS, ssLast, i)
       THEN LET r == ss_remove(ssD, ssS, ssLast, i)
            IN  /\ ssD' = r.D
                /\ ssS' = r.S
                /\ ssLast' = r.last
                /\ ssFault' = FALSE
       ELSE /\ ssFault' = TRUE
            /\ UNCHANGED <<ssD, ssS, ssLast>>
    /\ ssMembers' = ssMembers \ {i}
    /\ UNCHANGED exceptSparse

NextSparse ==
    \/ \E i \in Range : SsAdd(i)
    \/ \E i \in Range : SsRemove(i)

(***************************************************************************)
(* Entity metadata storage: the sparse integer set _free_ids of the ids    *)
(* in [0, Universe), used through create and reclaim.  ssMembers is the    *)
(* set of the ids that are free: made free and not returned by create      *)
(* since.                                                                  *)
(***************************************************************************)
\* The ids stored in _free_ids: the ones an iteration over D visits, up to
\* the last element D[last].
stored_ids(D, last) == {D[j] : j \in 0..last} \ {Null}

\* entity_metadata_storage::create: pops any stored free id i and returns
\* it.
StorageCreate(i) ==
    /\ i \in stored_ids(ssD, ssLast)
    /\ SsRemove(i)

\* An id that is not free is added to _free_ids: by the constructor, which
\* makes every id of [0, capacity) free, or by
\* entity_metadata_storage::reclaim of an id that create returned.
StorageReclaim(i) ==
    /\ i \notin ssMembers
    /\ SsAdd(i)

NextStorage ==
    \/ \E i \in Range : StorageCreate(i)
    \/ \E i \in Range : StorageReclaim(i)

(***************************************************************************)
(* Context: entity metadata, component storage, system instances, handles. *)
(***************************************************************************)
\* The entity ids of the context: the indices of its metadata, [0, capacity)
\* with a fixed entity limit.
EntityIds == DOMAIN metadata
Components == 1..NumComponents
\* The system instances of the context, in the order of the system
\* signature list.
Instances == 1..2

\* The component bitset of an instance: the components its system reads
\* or writes.  Instance 1 uses no component, instance 2 uses all of them.
required(i) == IF i = 1 THEN {} ELSE Components

\* bool matches(cb_entity, cb_system): (cb_system & cb_entity) == cb_system
matches(cb_entity, cb_system) == (cb_system \cap cb_entity) = cb_system

\* The invalid_id: the maximum value of the underlying numeric type.
invalid_id == CounterRange - 1
\* struct handle { entity_id _id; counter _ctr; }
handle(id, ctr) == [id |-> id, ctr |-> ctr]

\* valid_handle: true if h is not a "null handle".
valid_handle(h) == h.id # invalid_id

\* Accessing an entity through a handle: the handle's counter is compared
\* with the counter in the entity storage; if it differs the id was reused
\* and the handle points to a "dead" entity.
alive_handle(md, h) == valid_handle(h) /\ h.ctr = md[h.id].counter

\* entity_metadata_storage::alive
alive(free, e) == e \notin free

\* The ids a call of create_entity may return: any free id, and any id at
\* all when none is free.
created_ids(free) == IF free = {} THEN EntityIds ELSE free

\* The context state the critical operations work on.
Ctx == [metadata |-> metadata, free_ids |-> free_ids, storage |-> storage,
        spawns |-> spawns,
        refresh_state |-> refresh_state, fault |-> opFault]

\* entity_id create_entity(): the id e it returns is taken from the free
\* ids and the entity is to be matched.  It has no other result than an
\* entity id, and the fixed entity storage performs no check for growth:
\* called with no free id it is out of contract, and the id it returns is
\* whatever the storage yields.
create_entity(c, e) ==
    IF c.free_ids = {}
    THEN [c EXCEPT !.fault = TRUE]
    ELSE [c EXCEPT !.free_ids = @ \ {e},
                   !.refresh_state.to_match = @ \cup {e}]

\* A kill_entity that reclaims the entity at once.
kill_entity_reclaims_at_once(c, e) ==
    [c EXCEPT !.free_ids = @ \cup {e},
              !.metadata[e] = [bitset |-> {},
                               counter |-> (@.counter + 1) % CounterRange]]

\* kill_entity: marks the entity as dead.
kill_entity(c, e) == [c EXCEPT !.refresh_state.to_kill = @ \cup {e}]

\* add_component: requires the bit of k to be 0; sets it, constructs the
\* data in the storage of k; the entity is to be matched.
add_component(c, k, e) ==
    IF ~alive(c.free_ids, e) \/ k \in c.metadata[e].bitset
    THEN [c EXCEPT !.fault = TRUE]
    ELSE [c EXCEPT !.metadata[e].bitset = @ \cup {k},
                   !.storage[k] = @ \cup {e},
                   !.refresh_state.to_match = @ \cup {e}]

\* remove_component: requires the bit of k to be 1; clears it, removes the
\* data from the storage of k; the entity is to be matched.
remove_component(c, k, e) ==
    IF ~alive(c.free_ids, e) \/ k \notin c.metadata[e].bitset
    THEN [c EXCEPT !.fault = TRUE]
    ELSE [c EXCEPT !.metadata[e].bitset = @ \ {k},
                   !.storage[k] = @ \ {e},
                   !.refresh_state.to_match = @ \cup {e}]

\* entity_metadata_storage::reclaim: the id goes back to the free ids, its
\* counter grows by one and its bitset is cleared.
reclaim(md, e) ==
    [md EXCEPT ![e] = [bitset |-> {}, counter |-> (@.counter + 1) % CounterRange]]

\* Deferred functions, as the critical operations they call.
CreateAdd(k) == [e |-> 0, k |-> k, op |-> "create_add"]
DeferKill(e) == [e |-> e, k |-> 0, op |-> "kill"]
DeferAdd(k, e) == [e |-> e, k |-> k, op |-> "add"]
DeferRemove(k, e) == [e |-> e, k |-> k, op |-> "remove"]
\* The deferred function of s::life::process, which has captured spawns
\* (kept in k) and calls mk_particle(proxy, spawns - 1).
MkParticle(n) == [e |-> 0, k |-> n, op |-> "mk_particle"]

\* add_component of the components 1..n, one after the other.
RECURSIVE add_components(_, _, _)
add_components(c, n, e) ==
    IF n = 0 THEN c ELSE add_component(add_components(c, n - 1, e), n, e)

\* mk_particle: create_entity, then add_component of the component life,
\* which stands for every component type of the context: a particle has
\* the components the system life uses; then ccl._spawns = spawns.
mk_particle(c, e, n) ==
    [add_components(create_entity(c, e), NumComponents, e)
        EXCEPT !.spawns[e] = n]

\* The deferred functions that call create_entity.
Creating == {"create_add", "mk_particle"}

\* What a deferred function does when the refresh calls it; e is the id
\* create_entity returns.
run_deferred(c, f, e) ==
    CASE f.op = "create_add" -> add_component(create_entity(c, e), f.k, e)
      [] f.op = "mk_particle" -> mk_particle(c, e, f.k - 1)
      [] f.op = "kill" -> kill_entity(c, f.e)
      [] f.op = "add" -> add_component(c, f.k, f.e)
      [] f.op = "remove" -> remove_component(c, f.k, f.e)

\* The deferred functions a system may push while it iterates the
\* entities of ids.
Deferrable(md, ids) ==
    {CreateAdd(k) : k \in Components}
    \cup {DeferKill(e) : e \in ids}
    \cup {DeferAdd(k, e) : k \in Components, e \in ids}
    \cup {DeferRemove(k, e) : k \in Components, e \in ids}

\* Sequences over S of length at most n.
SeqsUpTo(S, n) == UNION {[1..m -> S] : m \in 0..n}

\* The concatenation of q[1], ..., q[n].
RECURSIVE Flatten(_, _)
Flatten(q, n) == IF n = 0 THEN <<>> ELSE Flatten(q, n - 1) \o q[n]

\* States whose marks are never read.
states_to_kill_none(v) == {}

\* The entities the subtask states of one instance marked as dead.
states_to_kill(v) == UNION {v[j].to_kill : j \in 1..Len(v)}

\* A refresh that visits the states of every instance from the last one to
\* the first one.
deferred_order_states_reversed(st) ==
    LET of_state(i, j) == [p \in 1..Len(st[i][j].deferred) |-> <<i, j, p>>]
        of_instance(i) ==
            Flatten([j \in 1..Len(st[i]) |-> of_state(i, Len(st[i]) + 1 - j)],
                    Len(st[i]))
        per == [i \in Instances |-> of_instance(i)]
    IN  Flatten(per, Len(per))

\* ExecuteDeferredFunctions visits every function of every state of every
\* instance, in this order: <<i, j, p>> is function p of state j of
\* instance i.
deferred_order(st) ==
    LET of_state(i, j) == [p \in 1..Len(st[i][j].deferred) |-> <<i, j, p>>]
        of_instance(i) ==
            Flatten([j \in 1..Len(st[i]) |-> of_state(i, j)], Len(st[i]))
        per == [i \in Instances |-> of_instance(i)]
    IN  Flatten(per, Len(per))

\* The deferred functions of all states, in the order the refresh calls them.
all_deferred(st) ==
    LET o == deferred_order(st)
    IN  [n \in 1..Len(o) |-> st[o[n][1]][o[n][2]].deferred[o[n][3]]]

\* A refresh that matches the entities before it reclaims the dead ones.
refresh_order_match_first ==
    <<"ExecuteDeferredFunctions", "MatchEntitiesToSystems", "ReclaimDeadEntities">>

\* The stages of a refresh, in the order the refresh performs them.
refresh_order ==
    <<"ExecuteDeferredFunctions", "ReclaimDeadEntities", "MatchEntitiesToSystems">>

\* The stage after the stage at, or "" after the last one.
stage_after(at) ==
    IF at = "body" THEN refresh_order[1]
    ELSE LET n == CHOOSE j \in 1..Len(refresh_order) : refresh_order[j] = at
         IN  IF n = Len(refresh_order) THEN "" ELSE refresh_order[n + 1]

(***************************************************************************)
(* History of the operations of a context, recorded when observing.        *)
(***************************************************************************)
\* The systems whose required components the bitset b includes.
matching(b) == {i \in Instances : matches(b, required(i))}

\* No add_component was recorded.
NoPair == [phase |-> "none", k |-> 0, e |-> 0, bitset |-> {}]

\* An operation other than the two of the pair touches entity e.
pair_void(p, e) ==
    IF p.phase \in {"added", "removed"} /\ p.e = e
    THEN [p EXCEPT !.phase = "void"]
    ELSE p

\* add_component(k, e): recorded if it is the first one on an alive entity
\* that is not marked as dead and is subscribed to the instances its
\* bitset matches and to no other.
pair_add(p, k, e) ==
    IF /\ p.phase = "none"
       /\ alive(free_ids, e)
       /\ k \notin metadata[e].bitset
       /\ e \notin dead
       /\ \A i \in Instances :
             e \in subscribed[i] <=> i \in matching(metadata[e].bitset)
    THEN [phase |-> "added", k |-> k, e |-> e, bitset |-> metadata[e].bitset]
    ELSE pair_void(p, e)

\* remove_component(k, e): completes the pair if it removes the component
\* the recorded add_component added.
pair_remove(p, k, e) ==
    IF p.phase = "added" /\ p.e = e /\ p.k = k
    THEN [p EXCEPT !.phase = "removed"]
    ELSE pair_void(p, e)

\* A system execution that produced the states S, or a deferred function
\* of S called by the refresh: the states may kill or change the entity.
pair_system(p, S) ==
    IF p.phase \in {"added", "removed"}
    THEN [p EXCEPT !.phase = "void"]
    ELSE p

\* A refresh was completed.
pair_refreshed(p) ==
    IF p.phase = "removed" THEN [p EXCEPT !.phase = "refreshed"] ELSE p

\* The pair after an operation that makes it p: the refresh that followed
\* the pair is the latest operation no more.
pair_next(p) ==
    IF pair.phase = "refreshed" THEN [pair EXCEPT !.phase = "over"] ELSE p

\* The entity table, the component stores and the subscription sets.
Tables == <<metadata, free_ids, storage, subscribed>>

NoSnap == [idle |-> FALSE, tables |-> <<>>]

\* context::step was called.
ObserveBegin ==
    /\ snap' = IF observing THEN [idle |-> TRUE, tables |-> Tables] ELSE snap
    /\ pair' = IF observing THEN pair_next(pair) ELSE pair
    /\ UNCHANGED observing

\* The step body performed an operation; the pair becomes p.
ObserveOp(p) ==
    /\ snap' = IF observing THEN [snap EXCEPT !.idle = FALSE] ELSE snap
    /\ pair' = IF observing THEN pair_next(p) ELSE pair
    /\ UNCHANGED observing

\* The step body returned: a body that called context::step performed an
\* operation.
ObserveReturn ==
    /\ snap' = IF observing
               THEN [snap EXCEPT !.idle = snap.idle /\ ~refreshed]
               ELSE snap
    /\ pair' = IF observing THEN pair_next(pair) ELSE pair
    /\ UNCHANGED observing

\* A stage of the refresh; the pair becomes p.
ObserveStage(p) ==
    /\ pair' = IF observing THEN pair_next(p) ELSE pair
    /\ UNCHANGED <<observing, snap>>

EcsStart ==
    /\ metadata = [e \in 0..(Capacity - 1) |-> [bitset |-> {}, counter |-> 0]]
    /\ free_ids = EntityIds
    /\ storage = [k \in Components |-> {}]
    /\ spawns = [e \in 0..(Capacity - 1) |-> 0]
    /\ subscribed = [i \in Instances |-> {}]
    /\ states = [i \in Instances |-> <<>>]
    /\ refresh_state = [to_kill |-> {}, to_match |-> {}]
    /\ stack = <<>>
    /\ handles = {}
    /\ stale = {}
    /\ lastStep = <<>>
    /\ refreshed = FALSE
    /\ opFault = FALSE
    /\ steps = 0
    /\ dead = {}
    /\ created = "none"
    /\ observing = FALSE
    /\ pair = NoPair
    /\ snap = NoSnap

Top == stack[Len(stack)]
InBody == ~opFault /\ stack # <<>> /\ Top.pc = "body"
InStage(name) == ~opFault /\ stack # <<>> /\ Top.pc = name

\* The variables of c that a critical operation may change.
SetCtx(c) ==
    /\ metadata' = c.metadata
    /\ free_ids' = c.free_ids
    /\ storage' = c.storage
    /\ spawns' = c.spawns
    /\ refresh_state' = c.refresh_state
    /\ opFault' = c.fault

\* The top step moves on to the stage after its current one; a step whose
\* refresh has performed its last stage is finished.
Advance ==
    LET f == [Top EXCEPT !.done = Append(@, Top.pc)]
        nxt == stage_after(Top.pc)
    IN  IF nxt = ""
        THEN /\ stack' = SubSeq(stack, 1, Len(stack) - 1)
             /\ lastStep' = f.done
             /\ refreshed' = TRUE
        ELSE /\ stack' = [stack EXCEPT ![Len(stack)] =
                             [f EXCEPT !.pc = nxt, !.cur = 0]]
             /\ refreshed' = FALSE
             /\ UNCHANGED lastStep

\* context::step: the refresh state is cleared, then the step function runs;
\* the scope guard calls refresh when the step function returns.
ContextStep ==
    /\ ~opFault
    /\ IF stack = <<>> THEN TRUE ELSE Top.pc = "body"
    /\ Len(stack) < MaxDepth
    /\ refresh_state' = [to_kill |-> {}, to_match |-> {}]
    /\ stack' = Append(stack, [pc |-> "body", cur |-> 0, done |-> <<>>,
                                ran |-> <<>>])
    /\ refreshed' = FALSE
    /\ UNCHANGED <<metadata, free_ids, storage, spawns, subscribed, states,
                   handles, stale, lastStep, opFault, dead>>
    /\ created' = "none"
    /\ ObserveBegin

\* A call of context::step, counted; at most n steps are taken.
StepBeginUpTo(n) ==
    /\ steps < n
    /\ steps' = steps + 1
    /\ ContextStep
    /\ UNCHANGED <<exceptEcs>>

StepBegin == StepBeginUpTo(MaxSteps)

\* Step proxy: create_entity.
StepCreateEntity(e) ==
    /\ InBody
    /\ e \in created_ids(free_ids)
    /\ SetCtx(create_entity(Ctx, e))
    /\ refreshed' = FALSE
    /\ UNCHANGED <<subscribed, states, stack, handles, stale, lastStep>>
    /\ UNCHANGED <<steps, dead, exceptEcs>>
    /\ created' = IF observing THEN "entity_id" ELSE created
    /\ ObserveOp(pair)

\* Step proxy: kill_entity.
StepKillEntity(e) ==
    /\ InBody
    /\ alive(free_ids, e)
    /\ SetCtx(kill_entity(Ctx, e))
    /\ refreshed' = FALSE
    /\ UNCHANGED <<subscribed, states, stack, handles, stale, lastStep>>
    /\ dead' = dead \cup {e}
    /\ UNCHANGED <<steps, exceptEcs>>
    /\ created' = "none"
    /\ ObserveOp(pair_void(pair, e))

\* Step proxy: add_component.
StepAddComponent(k, e) ==
    /\ InBody
    /\ alive(free_ids, e)
    /\ k \notin metadata[e].bitset
    /\ SetCtx(add_component(Ctx, k, e))
    /\ refreshed' = FALSE
    /\ UNCHANGED <<subscribed, states, stack, handles, stale, lastStep>>
    /\ UNCHANGED <<steps, dead, exceptEcs>>
    /\ created' = "none"
    /\ ObserveOp(pair_add(pair, k, e))

\* Step proxy: remove_component.
StepRemoveComponent(k, e) ==
    /\ InBody
    /\ alive(free_ids, e)
    /\ k \in metadata[e].bitset
    /\ SetCtx(remove_component(Ctx, k, e))
    /\ refreshed' = FALSE
    /\ UNCHANGED <<subscribed, states, stack, handles, stale, lastStep>>
    /\ UNCHANGED <<steps, dead, exceptEcs>>
    /\ created' = "none"
    /\ ObserveOp(pair_remove(pair, k, e))

\* Step proxy: create_handle.
StepCreateHandle(e) ==
    /\ InBody
    /\ alive(free_ids, e)
    /\ Cardinality(handles) < MaxHandles
    /\ handles' = handles \cup {handle(e, metadata[e].counter)}
    /\ refreshed' = FALSE
    /\ UNCHANGED <<metadata, free_ids, storage, spawns, subscribed, states,
                   refresh_state, stack, stale, lastStep, opFault>>
    /\ UNCHANGED <<steps, dead, exceptEcs>>
    /\ created' = "none"
    /\ ObserveOp(pair)

\* The states n subtasks may leave behind: every subtask marks at most
\* maxK of the entities of ids as dead and pushes at most maxF of the
\* deferred functions of D.
PreparedStates(ids, D, n, maxK, maxF) ==
    [1..n -> {[to_kill |-> K, deferred |-> F] :
                 K \in {X \in SUBSET ids : Cardinality(X) <= maxK},
                 F \in SeqsUpTo(D, maxF)}]

\* A system execution whose subtasks unsubscribe the entities they mark as
\* dead at once.
ExecuteSystem_unsubscribes(i, S) ==
    /\ InBody
    /\ \A j \in 1..Len(S) :
          /\ S[j].to_kill \subseteq subscribed[i]
          /\ \A p \in 1..Len(S[j].deferred) :
                S[j].deferred[p] \in Deferrable(metadata, subscribed[i])
    /\ states' = [states EXCEPT ![i] = S]
    /\ subscribed' = [n \in Instances |-> subscribed[n] \ states_to_kill(S)]
    /\ refreshed' = FALSE
    /\ UNCHANGED <<metadata, free_ids, storage, spawns, refresh_state,
                   stack, handles, stale, lastStep, opFault>>
    /\ dead' = dead \cup states_to_kill(S)
    /\ UNCHANGED <<steps, exceptEcs>>
    /\ created' = "none"
    /\ ObserveOp(pair_system(pair, S))

\* Step proxy: a system chain executes instance i.  clear_and_prepare
\* clears the states and prepares one for every subtask; subtask j marks
\* the entities of S[j].to_kill as dead and pushes the deferred functions
\* of S[j].deferred while it iterates its slice of the subscribed entities.
ExecuteSystem(i, S) ==
    /\ InBody
    /\ \A j \in 1..Len(S) :
          /\ S[j].to_kill \subseteq subscribed[i]
          /\ \A p \in 1..Len(S[j].deferred) :
                S[j].deferred[p] \in
                    Deferrable(metadata, subscribed[i])
                        \cup {MkParticle(spawns[e]) : e \in subscribed[i]}
    /\ states' = [states EXCEPT ![i] = S]
    /\ refreshed' = FALSE
    /\ UNCHANGED <<metadata, free_ids, storage, spawns, subscribed, refresh_state,
                   stack, handles, stale, lastStep, opFault>>
    /\ dead' = dead \cup states_to_kill(S)
    /\ UNCHANGED <<steps, exceptEcs>>
    /\ created' = "none"
    /\ ObserveOp(pair_system(pair, S))

\* Step proxy: a system chain executes instance i and a processing
\* function throws after the subtasks have filled the states S.  It throws
\* in a thread of the pool, where nothing catches it: the process is
\* terminated inside the step function, the scope guard is never run.
ExecuteSystemThrows(i, S) ==
    /\ InBody
    /\ \A j \in 1..Len(S) :
          /\ S[j].to_kill \subseteq subscribed[i]
          /\ \A p \in 1..Len(S[j].deferred) :
                S[j].deferred[p] \in Deferrable(metadata, subscribed[i])
    /\ states' = [states EXCEPT ![i] = S]
    /\ stack' = [stack EXCEPT ![Len(stack)].pc = "terminated"]
    /\ refreshed' = FALSE
    /\ UNCHANGED <<metadata, free_ids, storage, spawns, subscribed, refresh_state,
                   handles, stale, lastStep, opFault>>
    /\ dead' = dead \cup states_to_kill(S)
    /\ UNCHANGED <<steps, exceptEcs>>
    /\ created' = "none"
    /\ ObserveOp(pair_system(pair, S))

\* The step function returns: the scope guard starts the refresh.
StepBodyReturn ==
    /\ InBody
    /\ Advance
    /\ UNCHANGED <<metadata, free_ids, storage, spawns, subscribed, states,
                   refresh_state, handles, stale, opFault>>
    /\ UNCHANGED <<steps, dead, exceptEcs>>
    /\ created' = "none"
    /\ ObserveReturn

\* Refresh, ExecuteDeferredFunctions: the next deferred function is called.
RunDeferred(e) ==
    /\ InStage("ExecuteDeferredFunctions")
    /\ Top.cur < Len(all_deferred(states))
    /\ LET f == all_deferred(states)[Top.cur + 1]
       IN  /\ IF f.op \in Creating
              THEN e \in created_ids(free_ids)
              ELSE e = 0
           /\ SetCtx(run_deferred(Ctx, f, e))
    /\ stack' = [stack EXCEPT
                    ![Len(stack)].cur = @ + 1,
                    ![Len(stack)].ran =
                        Append(@, deferred_order(states)[Top.cur + 1])]
    /\ refreshed' = FALSE
    /\ UNCHANGED <<subscribed, states, handles, stale, lastStep>>
    /\ dead' = IF all_deferred(states)[Top.cur + 1].op = "kill"
               THEN dead \cup {all_deferred(states)[Top.cur + 1].e}
               ELSE dead
    /\ UNCHANGED <<steps, exceptEcs>>
    /\ created' = IF observing
                     /\ all_deferred(states)[Top.cur + 1].op \in Creating
                  THEN "entity_id"
                  ELSE "none"
    /\ ObserveStage(pair_system(pair, states[1]))

\* Refresh, ExecuteDeferredFunctions: every deferred function was called.
DeferredDone ==
    /\ InStage("ExecuteDeferredFunctions")
    /\ Top.cur = Len(all_deferred(states))
    /\ Advance
    /\ UNCHANGED <<metadata, free_ids, storage, spawns, subscribed, states,
                   refresh_state, handles, stale, opFault>>
    /\ UNCHANGED <<steps, dead, exceptEcs>>
    /\ created' = "none"
    /\ ObserveStage(pair)

\* Refresh, ReclaimDeadEntities: the entities the states marked are added
\* to to_kill; every instance unsubscribes the entities of to_kill; they
\* are reclaimed.
ReclaimDeadEntities ==
    /\ InStage("ReclaimDeadEntities")
    /\ LET tk == refresh_state.to_kill
                 \cup UNION {states_to_kill(states[i]) : i \in Instances}
       IN  /\ refresh_state' = [refresh_state EXCEPT !.to_kill = tk]
           /\ subscribed' = [i \in Instances |-> subscribed[i] \ tk]
           /\ metadata' = [e \in EntityIds |->
                              IF e \in tk THEN reclaim(metadata, e)[e]
                              ELSE metadata[e]]
           /\ free_ids' = free_ids \cup tk
           /\ stale' = stale \cup {h \in handles : h.id \in tk}
    /\ ObserveStage(pair)
    /\ created' = "none"
    /\ Advance
    /\ UNCHANGED <<storage, spawns, states, handles, opFault>>
    /\ dead' = dead \ (refresh_state.to_kill
                      \cup UNION {states_to_kill(states[i]) : i \in Instances})
    /\ UNCHANGED <<steps, exceptEcs>>

\* Refresh, MatchEntitiesToSystems: every instance subscribes the entities
\* of to_match whose bitset matches its own and unsubscribes the others.
MatchEntitiesToSystems ==
    /\ InStage("MatchEntitiesToSystems")
    /\ subscribed' =
           [i \in Instances |->
               (subscribed[i] \ refresh_state.to_match)
               \cup {e \in refresh_state.to_match :
                        matches(metadata[e].bitset, required(i))}]
    /\ ObserveStage(pair_refreshed(pair))
    /\ created' = "none"
    /\ Advance
    /\ UNCHANGED <<metadata, free_ids, storage, spawns, states, refresh_state,
                   handles, stale, opFault>>
    /\ UNCHANGED <<steps, dead, exceptEcs>>

NextEcs ==
    \/ StepBegin
    \/ \E e \in EntityIds : StepCreateEntity(e)
    \/ \E e \in EntityIds : StepKillEntity(e)
    \/ \E k \in Components, e \in EntityIds : StepAddComponent(k, e)
    \/ \E k \in Components, e \in EntityIds : StepRemoveComponent(k, e)
    \/ \E e \in EntityIds : StepCreateHandle(e)
    \/ \E i \in Instances :
          \E S \in PreparedStates(subscribed[i],
                                  Deferrable(metadata, subscribed[i]),
                                  1, MaxKills, MaxDeferred) :
             ExecuteSystem(i, S)
    \/ StepBodyReturn
    \/ \E e \in EntityIds : RunDeferred(e)
    \/ DeferredDone
    \/ ReclaimDeadEntities
    \/ MatchEntitiesToSystems

(***************************************************************************)
(* counter_blocker: mutex, condition variable and counter.                 *)
(***************************************************************************)
NoThread == -1
WaiterThread == 0
Decrementers == 1..MaxDecrements

\* A waiting predicate that is satisfied one decrement early.
counter_zero_one_early(c) == c <= 1

\* The predicate of execute_and_wait_until_counter_zero: return c == 0.
counter_zero(c) == c = 0

\* The blocked threads notify_one or notify_all may wake: one of them or
\* all of them (none when no thread is blocked).
notified(kind, blocked) ==
    IF blocked = {} THEN {{}}
    ELSE IF kind = "one" THEN {{x} : x \in blocked}
    ELSE {blocked}

\* A counter_blocker of n with n decrements to come: some of the
\* decrementing threads already run, the others are started by f.
LatchStart ==
    /\ cbCounter \in 0..MaxDecrements
    /\ cbMutex = NoThread
    /\ cbNotify \in {"one", "all"}
    /\ cbBlocked = {}
    /\ cbAssert = FALSE
    /\ waiterPc = "start"
    /\ decPc \in [Decrementers -> {"ready", "unborn", "unused"}]
    /\ \A d \in Decrementers : decPc[d] = "unused" <=> d > cbCounter

\* The latch variables of a run that uses no counter_blocker.
LatchAtRest ==
    /\ cbCounter = 0
    /\ cbMutex = NoThread
    /\ cbNotify = "one"
    /\ cbBlocked = {}
    /\ cbAssert = FALSE
    /\ waiterPc = "start"
    /\ decPc = [d \in Decrementers |-> "unused"]

\* execute_and_wait_until: unique_lock_type l(m).
ExecuteAndWaitLock ==
    /\ waiterPc = "start"
    /\ cbMutex = NoThread
    /\ cbMutex' = WaiterThread
    /\ waiterPc' = "f"
    /\ UNCHANGED <<cbCounter, cbNotify, cbBlocked, cbAssert, decPc>>
    /\ UNCHANGED exceptLatch

\* execute_and_wait_until: f() starts the operations that will decrement
\* the counter.
ExecuteAndWaitBody ==
    /\ waiterPc = "f"
    /\ decPc' = [d \in Decrementers |->
                    IF decPc[d] = "unborn" THEN "ready" ELSE decPc[d]]
    /\ waiterPc' = "test"
    /\ UNCHANGED <<cbCounter, cbMutex, cbNotify, cbBlocked, cbAssert>>
    /\ UNCHANGED exceptLatch

\* cv.wait(l, p): with the mutex held the predicate is tested; the wait
\* returns when it holds, otherwise the mutex is released and the thread
\* blocks, in one atomic step.
CvWaitTest ==
    /\ waiterPc = "test"
    /\ cbMutex' = NoThread
    /\ IF counter_zero(cbCounter)
       THEN /\ waiterPc' = "returned"
            /\ UNCHANGED cbBlocked
       ELSE /\ waiterPc' = "blocked"
            /\ cbBlocked' = cbBlocked \cup {WaiterThread}
    /\ UNCHANGED <<cbCounter, cbNotify, cbAssert, decPc>>
    /\ UNCHANGED exceptLatch

\* cv.wait: a blocked thread may wake up without a notification.
SpuriousWakeup ==
    /\ waiterPc = "blocked"
    /\ WaiterThread \in cbBlocked
    /\ cbBlocked' = cbBlocked \ {WaiterThread}
    /\ UNCHANGED <<cbCounter, cbMutex, cbNotify, cbAssert, waiterPc, decPc>>
    /\ UNCHANGED exceptLatch

\* cv.wait: the woken thread locks the mutex again and tests the predicate.
CvWaitRelock ==
    /\ waiterPc = "blocked"
    /\ WaiterThread \notin cbBlocked
    /\ cbMutex = NoThread
    /\ cbMutex' = WaiterThread
    /\ waiterPc' = "test"
    /\ UNCHANGED <<cbCounter, cbNotify, cbBlocked, cbAssert, decPc>>
    /\ UNCHANGED exceptLatch

\* access_cv_counter: lock_guard_type l(mutex).
AccessCvCounter(d) ==
    /\ decPc[d] = "ready"
    /\ cbMutex = NoThread
    /\ cbMutex' = d
    /\ decPc' = [decPc EXCEPT ![d] = "locked"]
    /\ UNCHANGED <<cbCounter, cbNotify, cbBlocked, cbAssert, waiterPc>>
    /\ UNCHANGED exceptLatch

\* decrement_cv_counter_and_notify_one / _all: assert(x_c > 0); --x_c;
\* notify; the lock_guard releases the mutex.
DecrementAndNotify(d) ==
    /\ decPc[d] = "locked"
    /\ cbAssert' = (cbAssert \/ cbCounter = 0)
    /\ cbCounter' = Decrement(cbCounter)
    /\ \E W \in notified(cbNotify, cbBlocked) : cbBlocked' = cbBlocked \ W
    /\ cbMutex' = NoThread
    /\ decPc' = [decPc EXCEPT ![d] = "done"]
    /\ UNCHANGED <<cbNotify, waiterPc>>
    /\ UNCHANGED exceptLatch

NextLatch ==
    \/ ExecuteAndWaitLock
    \/ ExecuteAndWaitBody
    \/ CvWaitTest
    \/ SpuriousWakeup
    \/ CvWaitRelock
    \/ \E d \in Decrementers : AccessCvCounter(d)
    \/ \E d \in Decrementers : DecrementAndNotify(d)

(***************************************************************************)
(* Thread pool: workers, queue and destruction.                            *)
(***************************************************************************)
\* The workers of the pool: _workers.
PoolWorkers == DOMAIN plState

\* all_workers_finished: every worker has exited the loop of worker::run.
all_workers_finished(pc) == \A w \in DOMAIN pc : pc[w] = "out"

\* A pool of W workers, each of them in worker::run.
PoolStart(W) ==
    /\ plQueue = [task |-> 0, dummy |-> 0]
    /\ plState = [w \in 1..W |-> "running"]
    /\ plPc = [w \in 1..W |-> "loop"]
    /\ plMain = "open"
    /\ plJoined = {}

\* thread_pool::post while the pool is in use.
PoolPost ==
    /\ plMain = "open"
    /\ plQueue.task < MaxTasks
    /\ plQueue' = [plQueue EXCEPT !.task = @ + 1]
    /\ UNCHANGED <<plState, plPc, plMain, plJoined>>
    /\ UNCHANGED exceptPool

\* A worker that never reads its state and so never leaves the loop.
WorkerLoop_ignores_state(w) ==
    /\ w \in PoolWorkers
    /\ plPc[w] = "loop"
    /\ plPc' = [plPc EXCEPT ![w] = "wait"]
    /\ UNCHANGED <<plQueue, plState, plMain, plJoined>>
    /\ UNCHANGED exceptPool

\* worker::run: while(_state == state::running); the worker whose state
\* is not running exits the loop and run returns.
WorkerLoop(w) ==
    /\ w \in PoolWorkers
    /\ plPc[w] = "loop"
    /\ plPc' = [plPc EXCEPT ![w] = IF plState[w] = "running"
                                   THEN "wait" ELSE "out"]
    /\ UNCHANGED <<plQueue, plState, plMain, plJoined>>
    /\ UNCHANGED exceptPool

\* The number of queued dummy tasks is counted up to MaxDummies, which
\* stands for MaxDummies or more: the queue is unbounded and the destructor
\* posts whatever the queue holds.
dummies_after_post(n) == IF n < MaxDummies THEN n + 1 ELSE MaxDummies
\* After a dequeue: of MaxDummies or more tasks, MaxDummies - 1 are left or
\* still MaxDummies or more.
dummies_after_dequeue(n) ==
    IF n < MaxDummies THEN {n - 1} ELSE {MaxDummies - 1, MaxDummies}

\* worker::run: _queue->wait_dequeue(t) blocks until the queue is not
\* empty and dequeues a task, a dummy one when dummy is TRUE.
WorkerDequeue(w, dummy) ==
    /\ w \in PoolWorkers
    /\ plPc[w] = "wait"
    /\ IF dummy
       THEN /\ plQueue.dummy > 0
            /\ \E n \in dummies_after_dequeue(plQueue.dummy) :
                  plQueue' = [plQueue EXCEPT !.dummy = n]
       ELSE /\ plQueue.task > 0
            /\ plQueue' = [plQueue EXCEPT !.task = @ - 1]
    /\ plPc' = [plPc EXCEPT ![w] = "task"]
    /\ UNCHANGED <<plState, plMain, plJoined>>
    /\ UNCHANGED exceptPool

\* worker::run: t() returns.
WorkerTaskReturn(w) ==
    /\ w \in PoolWorkers
    /\ plPc[w] = "task"
    /\ plPc' = [plPc EXCEPT ![w] = "loop"]
    /\ UNCHANGED <<plQueue, plState, plMain, plJoined>>
    /\ UNCHANGED exceptPool

\* The pool is destroyed.
DestroyPool ==
    /\ plMain = "open"
    /\ plMain' = "stop"
    /\ UNCHANGED <<plQueue, plState, plPc, plJoined>>
    /\ UNCHANGED exceptPool

\* ~thread_pool: for(auto& w : _workers) w.stop(), worker after worker.
StopWorker(w) ==
    /\ w \in PoolWorkers
    /\ plMain = "stop"
    /\ plState[w] = "running"
    /\ \A v \in PoolWorkers : v < w => plState[v] # "running"
    /\ plState' = [plState EXCEPT ![w] = "stopped"]
    /\ plMain' = IF w = Len(plState) THEN "post" ELSE "stop"
    /\ UNCHANGED <<plQueue, plPc, plJoined>>
    /\ UNCHANGED exceptPool

\* ~thread_pool: while(!all_workers_finished()), a worker has not exited
\* its loop: the destructor goes on to post a dummy task, whatever the
\* queue holds.
PostingTest ==
    /\ plMain = "post"
    /\ ~all_workers_finished(plPc)
    /\ plMain' = "dummy"
    /\ UNCHANGED <<plQueue, plState, plPc, plJoined>>
    /\ UNCHANGED exceptPool

\* ~thread_pool: post_dummy_task(), whatever the workers did since the
\* test; then the test again.
PostDummyTask ==
    /\ plMain = "dummy"
    /\ plQueue' = [plQueue EXCEPT !.dummy = dummies_after_post(@)]
    /\ plMain' = "post"
    /\ UNCHANGED <<plState, plPc, plJoined>>
    /\ UNCHANGED exceptPool

\* ~thread_pool: while(!all_workers_finished()), all workers have exited
\* their loops: the posting loop ends.
PostingDone ==
    /\ plMain = "post"
    /\ all_workers_finished(plPc)
    /\ plMain' = "join"
    /\ UNCHANGED <<plQueue, plState, plPc, plJoined>>
    /\ UNCHANGED exceptPool

\* ~thread_pool: for(auto& w : _workers) w.join(); join returns once the
\* thread of the worker has left worker::run.
JoinWorker(w) ==
    /\ w \in PoolWorkers
    /\ plMain = "join"
    /\ w \notin plJoined
    /\ \A v \in PoolWorkers : v < w => v \in plJoined
    /\ plPc[w] = "out"
    /\ plJoined' = plJoined \cup {w}
    /\ plMain' = IF w = Len(plState) THEN "done" ELSE "join"
    /\ UNCHANGED <<plQueue, plState, plPc>>
    /\ UNCHANGED exceptPool

NextPool ==
    \/ PoolPost
    \/ \E w \in PoolWorkers : WorkerLoop(w)
    \/ \E w \in PoolWorkers : WorkerDequeue(w, TRUE)
    \/ \E w \in PoolWorkers : WorkerDequeue(w, FALSE)
    \/ \E w \in PoolWorkers : WorkerTaskReturn(w)
    \/ DestroyPool
    \/ \E w \in PoolWorkers : StopWorker(w)
    \/ PostingTest
    \/ PostDummyTask
    \/ PostingDone
    \/ \E w \in PoolWorkers : JoinWorker(w)

\* The functions the systems of the steps below defer: the kill of an
\* entity the system iterates.
RefreshDeferrable == {DeferKill(e) : e \in EntityIds}

\* A step function that only executes systems, each split in up to
\* MaxSubtasks subtasks that push up to MaxPushed deferred functions each.
NextRefresh ==
    \/ StepBegin
    \/ \E i \in Instances : \E n \in 1..MaxSubtasks :
          \E S \in PreparedStates({}, RefreshDeferrable, n, 0, MaxPushed) :
             ExecuteSystem(i, S)
    \/ StepBodyReturn
    \/ \E e \in EntityIds : RunDeferred(e)
    \/ DeferredDone
    \/ ReclaimDeadEntities
    \/ MatchEntitiesToSystems

\* The context after a first step that created the entities of made,
\* gave entity e the components B[e] and was refreshed; the entity ids are
\* the ones B is defined on and n is the _spawns of a component life;
\* history is recorded from here, and the steps are counted from here.
AfterFirstStepOf(made, B, n) ==
    /\ metadata = [e \in DOMAIN B |->
                      [bitset |-> IF e \in made THEN B[e] ELSE {},
                       counter |-> 0]]
    /\ free_ids = EntityIds \ made
    /\ storage = [k \in Components |-> {e \in made : k \in B[e]}]
    /\ spawns = [e \in DOMAIN B |-> IF e \in made THEN n ELSE 0]
    /\ subscribed = [i \in Instances |->
                        {e \in made : matches(B[e], required(i))}]
    /\ states = [i \in Instances |-> <<>>]
    /\ refresh_state = [to_kill |-> {}, to_match |-> made]
    /\ stack = <<>>
    /\ handles = {}
    /\ stale = {}
    /\ lastStep = <<"body">> \o refresh_order
    /\ refreshed = TRUE
    /\ opFault = FALSE
    /\ steps = 0
    /\ dead = {}
    /\ created = "none"
    /\ observing = TRUE
    /\ pair = NoPair
    /\ snap = NoSnap

AfterFirstStep(made, B) == AfterFirstStepOf(made, B, 0)

\* Steps whose bodies create and kill entities, add and remove components,
\* open steps and execute systems that kill entities; history is recorded.
NextObserved ==
    \/ StepBegin
    \/ \E e \in EntityIds : StepCreateEntity(e)
    \/ \E e \in EntityIds : StepKillEntity(e)
    \/ \E k \in Components, e \in EntityIds : StepAddComponent(k, e)
    \/ \E k \in Components, e \in EntityIds : StepRemoveComponent(k, e)
    \/ \E i \in Instances :
          \E S \in PreparedStates(subscribed[i], {}, 1, MaxKills, 0) :
             ExecuteSystem(i, S)
    \/ StepBodyReturn
    \/ DeferredDone
    \/ ReclaimDeadEntities
    \/ MatchEntitiesToSystems

\* A step function that only executes systems, whose processing functions
\* may throw.
NextThrow ==
    \/ NextRefresh
    \/ \E i \in Instances : \E n \in 1..MaxSubtasks :
          \E S \in PreparedStates({}, {CreateAdd(1)}, n, 0, MaxPushed) :
             ExecuteSystemThrows(i, S)

\* Steps whose bodies create entities, open steps and execute systems
\* that push creations of an entity with a component; history is recorded.
NextCreate ==
    \/ StepBegin
    \/ \E e \in EntityIds : StepCreateEntity(e)
    \/ \E i \in Instances :
          \E S \in PreparedStates({}, {CreateAdd(k) : k \in Components},
                                  1, 0, MaxDeferred) :
             ExecuteSystem(i, S)
    \/ StepBodyReturn
    \/ \E e \in EntityIds : RunDeferred(e)
    \/ DeferredDone
    \/ ReclaimDeadEntities
    \/ MatchEntitiesToSystems

(***************************************************************************)
(* The entity creation/destruction benchmark.                              *)
(***************************************************************************)
\* The instance of the system life, whose signature writes the component
\* life: every component type of the benchmark's context.
life == 2

\* entity_limit = 50000 * 2 * 2 * 2, where initial_particle_count = 50000.
entity_limit == BenchN * 2 * 2 * 2

\* No benchmark runs.
BenchAtRest ==
    /\ benchAt = "none"
    /\ benchStepped = FALSE
    /\ remaining_waves = 0
    /\ initial_particle_count = 0
    /\ running = FALSE

\* init_ctx has returned and update_ctx is called for the first time, with
\* BenchWaves waves left.
BenchStart ==
    /\ benchAt = "first"
    /\ benchStepped = FALSE
    /\ remaining_waves = BenchWaves
    /\ initial_particle_count = BenchN
    /\ running = TRUE

\* The deferred functions pushed for the particles of S, visited in any
\* order: one mk_particle for every particle, with the spawns it captured
\* (of the particles with the same spawns, the lowest id is taken first:
\* any other order pushes the same functions).
RECURSIVE pushed_by(_)
pushed_by(S) ==
    IF S = {} THEN {<<>>}
    ELSE UNION {{<<MkParticle(spawns[x])>> \o q : q \in pushed_by(S \ {x})} :
                  x \in {y \in S : \A z \in S :
                                      spawns[z] = spawns[y] => y <= z}}

\* The number of subtasks an execution of life over n particles may have:
\* one where the settings disallow inner parallelism, and
\* split_evenly_fn::v_cores where they allow it, one subtask per worker
\* and never more subtasks than particles.
life_subtasks(n) ==
    {1, IF n < 1 THEN 1 ELSE IF n < NumWorkers THEN n ELSE NumWorkers}

\* The ways of handing the particles of S to k subtasks: every subtask
\* gets a slice of the subscribed particles, no slice is empty when there
\* are k particles or more, and every particle is in one slice.  Which
\* particles a slice holds depends on their order in the sparse set of
\* the instance and on the sizes of the slices: any are taken.
RECURSIVE slices(_, _)
slices(S, k) ==
    IF k = 1 THEN {<<S>>}
    ELSE UNION {{<<A>> \o q : q \in slices(S \ A, k - 1)} :
                  A \in {X \in SUBSET S :
                            X # {} /\ Cardinality(S \ X) >= k - 1}}

\* The states the subtasks of life leave, one for every slice of P: the
\* lives l are decreased by 10 * dt, where dt is the time the frame took,
\* so the particles whose life is over are any K of the slice, visited in
\* any order.  s::life::process marks every one of them as dead and defers
\* a mk_particle for it if it has spawns left.
RECURSIVE life_states(_)
life_states(P) ==
    IF P = <<>> THEN {<<>>}
    ELSE LET rest == life_states(Tail(P))
         IN  UNION {UNION {{<<[to_kill |-> K, deferred |-> F]>> \o q :
                              q \in rest} :
                           F \in pushed_by({e \in K : spawns[e] > 0})} :
                    K \in SUBSET Head(P)}

\* The states an execution of life may leave.
LifeStates ==
    UNION {UNION {life_states(P) : P \in slices(subscribed[life], k)} :
           k \in life_subtasks(Cardinality(subscribed[life]))}

\* mk_particle(proxy, n) with every id of the sequence ids, one after the
\* other.
RECURSIVE mk_particles(_, _, _)
mk_particles(c, ids, n) ==
    IF ids = <<>> THEN c
    ELSE mk_particles(mk_particle(c, Head(ids), n), Tail(ids), n)

\* init_ctx, the step function: mk_particle(proxy, 300),
\* initial_particle_count times; T are the free ids create_entity takes,
\* and x is the id returned by the first call made with no free id left,
\* if there is one.
InitCtxBody(T, x) ==
    /\ benchAt = "init_ctx"
    /\ InBody
    /\ Len(stack) = 2
    /\ snap.idle
    /\ T \subseteq free_ids
    /\ Cardinality(T) = IF Cardinality(free_ids) < initial_particle_count
                        THEN Cardinality(free_ids)
                        ELSE initial_particle_count
    /\ IF Cardinality(free_ids) < initial_particle_count
       THEN SetCtx(mk_particle(mk_particles(Ctx, DescendingSeq(T),
                                            BenchSpawns), x, BenchSpawns))
       ELSE x = 0 /\ SetCtx(mk_particles(Ctx, DescendingSeq(T), BenchSpawns))
    /\ refreshed' = FALSE
    /\ UNCHANGED <<subscribed, states, stack, handles, stale, lastStep>>
    /\ UNCHANGED <<steps, dead, exceptEcs>>
    /\ created' = "entity_id"
    /\ ObserveOp(pair)

\* update_ctx, the second step function when no entity is in life:
\* bench(); with a wave left, --remaining_waves, initial_particle_count
\* *= 2 and init_ctx is called; with none, _running = false.
BenchWaveOver ==
    /\ benchAt = "second"
    /\ InBody
    /\ subscribed[life] = {}
    /\ IF remaining_waves > 0
       THEN /\ remaining_waves' = remaining_waves - 1
            /\ initial_particle_count' = initial_particle_count * 2
            /\ benchAt' = "init_ctx"
            /\ UNCHANGED running
       ELSE /\ running' = FALSE
            /\ benchAt' = "out"
            /\ UNCHANGED <<remaining_waves, initial_particle_count>>
    /\ benchStepped' = FALSE
    /\ UNCHANGED exceptBench

\* A call returns: the first ctx.step of update_ctx, and the second one
\* is next; init_ctx, into the second step function, which returns next;
\* update_ctx, which is called again while _running.
BenchReturn ==
    /\ CASE benchAt = "first" ->
               /\ stack = <<>> /\ benchStepped
               /\ benchAt' = "second"
         [] benchAt = "init_ctx" ->
               /\ Len(stack) = 1 /\ benchStepped
               /\ benchAt' = "out"
         [] benchAt = "second" ->
               /\ stack = <<>> /\ benchStepped
               /\ benchAt' = "first"
         [] benchAt = "out" ->
               /\ stack = <<>> /\ running
               /\ benchAt' = "first"
         [] OTHER -> FALSE
    /\ benchStepped' = FALSE
    /\ UNCHANGED <<remaining_waves, initial_particle_count, running>>
    /\ UNCHANGED exceptBench

\* Everything the state holds about entity id e.
entity_facts(e) ==
    <<metadata[e], e \in free_ids, {k \in Components : e \in storage[k]},
      spawns[e], {i \in Instances : e \in subscribed[i]},
      {<<i, j>> \in Instances \X (1..entity_limit) :
          j <= Len(states[i]) /\ e \in states[i][j].to_kill},
      \E i \in Instances : \E j \in 1..Len(states[i]) :
          \E n \in 1..Len(states[i][j].deferred) :
             /\ states[i][j].deferred[n].op \notin Creating
             /\ states[i][j].deferred[n].e = e,
      e \in refresh_state.to_kill, e \in refresh_state.to_match, e \in dead,
      {h \in handles \cup stale : h.id = e},
      IF snap.tables = <<>> THEN <<>>
      ELSE <<snap.tables[1][e], e \in snap.tables[2],
             {k \in Components : e \in snap.tables[3][k]},
             {i \in Instances : e \in snap.tables[4][i]}>>,
      pair.phase # "none" /\ pair.e = e>>

\* Two ids about which the state holds the same facts are interchangeable:
\* the runs that follow from handing out the one are the runs that follow
\* from handing out the other with the two ids exchanged.  The lowest id
\* of every kind of S.
OneOfEachKind(S) ==
    LET P == {<<entity_facts(e), e>> : e \in S}
    IN  {p[2] : p \in {q \in P : \A r \in P : r[1] = q[1] => q[2] <= r[2]}}

\* The subsets of S that take the lowest ids of every kind.
LowestOfEachKind(S) ==
    LET P == {<<entity_facts(e), e>> : e \in S}
    IN  {T \in SUBSET S :
            \A p, q \in P : (p[2] \in T /\ q[2] \notin T /\ p[1] = q[1])
                                => p[2] < q[2]}

\* update_ctx and init_ctx call ctx.step (the steps of the benchmark are
\* not counted).
BenchStep ==
    /\ ~benchStepped
    /\ \/ benchAt \in {"first", "second"} /\ stack = <<>>
       \/ benchAt = "init_ctx" /\ Len(stack) = 1
    /\ ContextStep
    /\ benchStepped' = TRUE
    /\ UNCHANGED <<benchAt, remaining_waves, initial_particle_count, running>>
    /\ UNCHANGED <<steps, schedVars, sparseVars, latchVars, poolVars>>

\* update_ctx, again and again while _running: a step that executes the
\* system life, then a step that executes no system and, when no entity is
\* left in life, starts the next wave with init_ctx or ends the run.
NextBench ==
    \/ BenchStep
    \/ /\ benchAt = "first"
       /\ snap.idle
       /\ \E S \in LifeStates : ExecuteSystem(life, S)
    \/ /\ benchAt = "init_ctx"
       /\ \E T \in LowestOfEachKind(free_ids) :
             \E x \in OneOfEachKind(EntityIds) : InitCtxBody(T, x)
    \/ BenchWaveOver
    \/ /\ \/ benchAt = "first" /\ ~snap.idle
          \/ benchAt = "second" /\ subscribed[life] # {}
          \/ benchAt = "init_ctx" /\ Len(stack) = 2 /\ ~snap.idle
          \/ benchAt = "out"
       /\ StepBodyReturn
    \/ BenchReturn
    \/ /\ InStage("ExecuteDeferredFunctions")
       /\ \E e \in OneOfEachKind(created_ids(free_ids)) : RunDeferred(e)
    \/ DeferredDone
    \/ ReclaimDeadEntities
    \/ MatchEntitiesToSystems

(***************************************************************************)
(* Specifications.                                                         *)
(***************************************************************************)
\* The scheduler variables of a run that schedules nothing.
SchedAtRest ==
    /\ deps = [s \in Systems |-> {}]
    /\ roots = {}
    /\ nsub = [s \in Systems |-> 1]
    /\ queue = EmptyBag
    /\ wk = [w \in Workers |-> Idle]
    /\ latch = 0
    /\ inner = [w \in Workers |-> 0]
    /\ remaining = [s \in Systems |-> 0]
    /\ pcMain = "init"
    /\ active = [s \in Systems |-> 0]
    /\ started = [s \in Systems |-> 0]
    /\ finished = [s \in Systems |-> 0]
    /\ submitted = [s \in Systems |-> 0]
    /\ assertFailed = FALSE
    /\ failing = {}

InitSched == SchedStart /\ failing = {} /\ SparseEmpty /\ EcsStart
    /\ LatchAtRest /\ PoolStart(NumWorkers) /\ BenchAtRest
SpecSched == InitSched /\ [][NextSched]_vars

\* One of the systems of the chain to execute has a processing function
\* that may throw.
InitFail ==
    /\ SchedStart
    /\ \E s \in ReachableFrom(deps, roots) : failing = {s}
    /\ SparseEmpty /\ EcsStart /\ LatchAtRest /\ PoolStart(NumWorkers) /\ BenchAtRest
SpecFail == InitFail /\ [][NextFail]_vars

\* execute_systems() starts from every system that has no dependency.
InitParticle ==
    /\ SchedStart
    /\ deps = ParticleDeps
    /\ roots = {s \in Systems : deps[s] = {}}
    /\ failing = {}
    /\ SparseEmpty /\ EcsStart /\ LatchAtRest /\ PoolStart(NumWorkers) /\ BenchAtRest
SpecParticle == InitParticle /\ [][NextParticle]_vars

InitSparse == SchedAtRest /\ SparseEmpty /\ EcsStart
    /\ LatchAtRest /\ PoolStart(NumWorkers) /\ BenchAtRest
SpecSparse == InitSparse /\ [][NextSparse]_vars

InitStorage == SchedAtRest /\ SparseEmpty /\ EcsStart
    /\ LatchAtRest /\ PoolStart(NumWorkers) /\ BenchAtRest
SpecStorage == InitStorage /\ [][NextStorage]_vars

InitEcs == SchedAtRest /\ SparseEmpty /\ EcsStart
    /\ LatchAtRest /\ PoolStart(NumWorkers) /\ BenchAtRest
SpecEcs == InitEcs /\ [][NextEcs]_vars

InitObserved ==
    /\ SchedAtRest /\ SparseEmpty /\ LatchAtRest /\ PoolStart(NumWorkers) /\ BenchAtRest
    /\ \E made \in SUBSET (0..(Capacity - 1)) :
          \E B \in [0..(Capacity - 1) -> SUBSET Components] :
             AfterFirstStep(made, B)
SpecObserved == InitObserved /\ [][NextObserved]_vars

SpecRefresh == InitObserved /\ [][NextRefresh]_vars

SpecCreate == InitObserved /\ [][NextCreate]_vars

\* init_ctx: a step made BenchN particles, the entities 0..(BenchN - 1).
InitBench ==
    /\ SchedAtRest /\ SparseEmpty /\ LatchAtRest /\ PoolStart(NumWorkers)
    /\ BenchStart
    /\ AfterFirstStepOf(0..(BenchN - 1),
                        [e \in 0..(entity_limit - 1) |-> Components],
                        BenchSpawns)
SpecBench == InitBench /\ [][NextBench]_vars

SpecThrow == InitObserved /\ [][NextThrow]_vars

\* Fair scheduling: a thread that can take a step eventually takes it, and
\* a thread that can lock the mutex again and again eventually locks it.
InitLatch ==
    SchedAtRest /\ SparseEmpty /\ EcsStart /\ LatchStart
    /\ PoolStart(NumWorkers) /\ BenchAtRest
SpecLatch ==
    /\ InitLatch
    /\ [][NextLatch]_vars
    /\ SF_vars(ExecuteAndWaitLock)
    /\ WF_vars(ExecuteAndWaitBody)
    /\ WF_vars(CvWaitTest)
    /\ SF_vars(CvWaitRelock)
    /\ \A d \in Decrementers :
          SF_vars(AccessCvCounter(d)) /\ WF_vars(DecrementAndNotify(d))

\* Fair scheduling: every thread that can take a step eventually takes
\* it; nothing obliges the owner to post tasks or to destroy the pool.
\* The pool has any number of workers from 1 to MaxPoolWorkers.
InitPool ==
    /\ SchedAtRest /\ SparseEmpty /\ EcsStart /\ LatchAtRest /\ BenchAtRest
    /\ \E W \in 1..MaxPoolWorkers : PoolStart(W)
SpecPool ==
    /\ InitPool
    /\ [][NextPool]_vars
    /\ \A w \in 1..MaxPoolWorkers :
          /\ WF_vars(WorkerLoop(w))
          /\ WF_vars(WorkerDequeue(w, TRUE) \/ WorkerDequeue(w, FALSE))
          /\ WF_vars(WorkerTaskReturn(w))
          /\ WF_vars(StopWorker(w))
          /\ WF_vars(JoinWorker(w))
    /\ WF_vars(PostingTest)
    /\ WF_vars(PostDummyTask)
    /\ WF_vars(PostingDone)

(***************************************************************************)
(* Claims about the scheduler.                                             *)
(***************************************************************************)
\* The systems one execute_systems_from call is to run.
Reach == ReachableFrom(deps, roots)

\* C1: while a subtask body of a system executes, every dependency of it
\* that takes part in the run has returned from all its bodies: it has
\* completed, none of its bodies is executing and none is still to start.
C1_BodyStartsAfterDependencies ==
    \A s \in Systems : \A d \in deps[s] \cap Reach :
        active[s] > 0 =>
            (active[d] = 0 /\ finished[d] >= 1 /\ finished[d] = started[d])

\* C2: every reachable system is posted in the thread pool once and its
\* body is run exactly once in one execute_systems_from call.
C2_EverySystemRunsExactlyOnce ==
    \A s \in Systems :
        /\ submitted[s] <= 1
        /\ started[s] <= 1
        /\ pcMain = "returned" => finished[s] = (IF s \in Reach THEN 1 ELSE 0)

\* Worker w is blocked in cv.wait of an inner counter_blocker.
BlockedOnInner(w) == wk[w].pc = "wait" /\ inner[w] # 0

\* C3: there is no state in which every worker is blocked on an inner
\* latch while tasks are waiting in the queue.
C3_NoDeadlock ==
    ~(/\ pcMain = "waiting"
      /\ queue # EmptyBag
      /\ \A w \in Workers : BlockedOnInner(w))

\* C4: once execution started, the outer latch is 0 exactly when every
\* reachable system has completed; no other system is run; and the call
\* has returned only if no body is executing or still to run.
C4_ReturnsExactlyWhenAllCompleted ==
    /\ pcMain # "init" =>
          ((latch = 0) <=> (\A s \in Reach : finished[s] >= 1))
    /\ \A s \in Systems \ Reach : started[s] = 0
    /\ pcMain = "returned" =>
          \A s \in Systems : active[s] = 0 /\ finished[s] = started[s]

\* C8: no two systems execute bodies at the same time when one writes a
\* component kind the other reads or writes.
C8_NoConflictingSystemsOverlap ==
    \A u, v \in Systems :
        (u # v /\ active[u] > 0 /\ active[v] > 0) => ~Conflict(deps, u, v)

(***************************************************************************)
(* Claims about the sparse integer set.                                    *)
(***************************************************************************)
\* C9: after any sequence of add and remove, D[S[i]] = i for every present
\* i, S[i] is null for every i not present, and the number of stored
\* integers equals the number of present ones.
C9_SparseSetInvariant ==
    /\ ~ssFault
    /\ \A i \in ssMembers : ssS[i] \in Range /\ ssD[ssS[i]] = i
    /\ \A i \in Range \ ssMembers : ssS[i] = Null
    /\ ssLast = Cardinality(ssMembers)

(***************************************************************************)
(* Claims about steps, refreshes, entities and handles.                    *)
(***************************************************************************)
\* C5: after every refresh (here: of a step that is not opened inside
\* another one), an entity id is subscribed to an instance if and only if
\* the id is alive and its bitset contains the bitset the instance requires.
C5_SubscribedIffAliveAndMatching ==
    (refreshed /\ stack = <<>>) =>
        \A i \in Instances, e \in EntityIds :
            e \in subscribed[i]
                <=> (alive(free_ids, e) /\ matches(metadata[e].bitset, required(i)))

\* The null handle.
null_handle == handle(invalid_id, 0)

\* The entity of h is alive and its counter is the one h holds.
AliveWithCounter(h) ==
    /\ h.id \in EntityIds
    /\ alive(free_ids, h.id)
    /\ metadata[h.id].counter = h.ctr

\* C6 as stated: valid_handle(h) holds if and only if the id of h is alive
\* and its generation is the one h holds; valid_handle(h) is false for every
\* handle whose id was reclaimed after h was created.
C6_ValidHandleIffAliveAndCounter ==
    /\ \A h \in handles \cup {null_handle} : valid_handle(h) <=> AliveWithCounter(h)
    /\ \A h \in stale : ~valid_handle(h)

\* C7: after every refresh, the storage of component k holds data for an
\* entity id if and only if bit k of the id's bitset is set.
C7_StorageHoldsDataIffBitSet ==
    refreshed =>
        \A k \in Components, e \in EntityIds :
            e \in storage[k] <=> k \in metadata[e].bitset

\* The stages of a step, in order.
StepStages ==
    <<"body", "ExecuteDeferredFunctions", "ReclaimDeadEntities", "MatchEntitiesToSystems">>

IsPrefix(p, q) == Len(p) <= Len(q) /\ p = SubSeq(q, 1, Len(p))

\* Every open step went through the stages in order, each once, and so
\* did the last finished step through all of them.
StagesInOrder ==
    /\ lastStep \in {<<>>, StepStages}
    /\ \A j \in 1..Len(stack) :
          IsPrefix(Append(stack[j].done, stack[j].pc), StepStages)

\* C10 as stated: every step runs its body and then exactly one refresh,
\* whose stages run in order, and the refresh of a step completes before
\* the body of the next step starts: no step starts while another is open.
C10_RefreshBeforeNextStepBody ==
    /\ StagesInOrder
    /\ Len(stack) <= 1

\* C10 amended: every step runs its body and then exactly one refresh, whose
\* stages run in order; a step that starts while another step is open
\* starts in the body of that step, and its refresh completes before that
\* body goes on and so before the refresh of the enclosing step starts.
C10_StagesInOrderAndNested ==
    /\ StagesInOrder
    /\ \A j \in 1..(Len(stack) - 1) : stack[j].pc = "body"

\* A step opened in the body of another step has just finished its refresh.
C10_Witness ==
    /\ Len(stack) = 1
    /\ refreshed
    /\ lastStep = StepStages
    /\ Top.pc = "body"

(***************************************************************************)
(* Claims about deferred functions.                                        *)
(***************************************************************************)
\* <<i, j, p>> comes before <<i2, j2, p2>>: instance, then state, then the
\* position in the list of the state.
TagBefore(a, b) ==
    \/ a[1] < b[1]
    \/ a[1] = b[1] /\ a[2] < b[2]
    \/ a[1] = b[1] /\ a[2] = b[2] /\ a[3] < b[3]

\* The deferred functions the states hold.
TagsOf(st) ==
    {<<i, j, p>> : i \in Instances, j \in 1..MaxSubtasks, p \in 1..MaxPushed}
    \cap {g \in Instances \X (1..MaxSubtasks) \X (1..MaxPushed) :
             /\ g[2] <= Len(st[g[1]])
             /\ g[3] <= Len(st[g[1]][g[2]].deferred)}

\* The deferred functions a step has called so far were called one after
\* the other in the order instance, state, position, none of them twice and
\* none skipped.
CalledInOrder(f) ==
    /\ \A m, n \in 1..Len(f.ran) : m < n => TagBefore(f.ran[m], f.ran[n])
    /\ \A n \in 1..Len(f.ran) :
          /\ f.ran[n] \in TagsOf(states)
          /\ \A g \in TagsOf(states) :
                TagBefore(g, f.ran[n]) => \E m \in 1..(n - 1) : f.ran[m] = g

\* C11 as stated: deferred functions are called one at a time, ordered by
\* instance, then subtask state, then push order, and none of them is
\* called before the step body has finished: no step function is running
\* while one of them is called.
C11_DeferredAfterStepBody ==
    /\ \A j \in 1..Len(stack) : CalledInOrder(stack[j])
    /\ (stack # <<>> /\ Top.ran # <<>>) =>
          \A j \in 1..Len(stack) : stack[j].pc # "body"

\* C11 amended: deferred functions are called one at a time, ordered by
\* instance, then subtask state, then push order, and a step calls none
\* before its own step function has returned; the step functions of the
\* steps that enclose it are still running meanwhile.
C11_DeferredInOrderAfterOwnBody ==
    \A j \in 1..Len(stack) :
        /\ CalledInOrder(stack[j])
        /\ stack[j].ran # <<>> =>
              /\ stack[j].pc # "body"
              /\ "body" \in SeqToSet(stack[j].done)
              /\ \A m \in 1..(j - 1) : stack[m].pc = "body"

\* A refresh has called deferred functions of two instances, of two states
\* of one instance and two functions of one state.
C11_Witness ==
    /\ stack # <<>>
    /\ Top.pc = "ExecuteDeferredFunctions"
    /\ \E m, n \in 1..Len(Top.ran) : Top.ran[m][1] # Top.ran[n][1]
    /\ \E m, n \in 1..Len(Top.ran) :
          Top.ran[m][1] = Top.ran[n][1] /\ Top.ran[m][2] # Top.ran[n][2]
    /\ \E m, n \in 1..Len(Top.ran) :
          /\ Top.ran[m][1] = Top.ran[n][1]
          /\ Top.ran[m][2] = Top.ran[n][2]
          /\ Top.ran[m][3] # Top.ran[n][3]

(***************************************************************************)
(* Claims about the reclamation of dead entities.                          *)
(***************************************************************************)
\* The counter of entity e changes in this step of the context.
Reclaimed(e) == metadata'[e].counter # metadata[e].counter

\* C12: an entity marked as dead during a step is reclaimed exactly once by
\* the refresh of that step.  Once no step is open no entity is left marked
\* and not reclaimed; and a refresh reclaims only entities that were marked
\* since they were last reclaimed, which are not free: their counter grows
\* by one and they enter the free ids.
C12_ReclaimedExactlyOnce ==
    /\ [](stack = <<>> => dead = {})
    /\ [][\A e \in EntityIds :
             Reclaimed(e) =>
                /\ e \in dead
                /\ e \notin free_ids
                /\ e \in free_ids'
                /\ metadata'[e].counter = (metadata[e].counter + 1) % CounterRange
          ]_vars

(***************************************************************************)
(* Claims about inner parallelism.                                         *)
(***************************************************************************)
\* The subtasks posted by worker w that have not decremented its
\* counter_blocker yet: those waiting in the queue and those a worker runs.
PendingSubtasks(w) ==
    LET queued == {t \in BagToSet(queue) : t.kind = "sub" /\ t.owner = w}
        count[T \in SUBSET queued] ==
            IF T = {} THEN 0
            ELSE LET t == CHOOSE x \in T : TRUE
                 IN  CopiesIn(t, queue) + count[T \ {t}]
    IN  count[queued]
        + Cardinality({v \in Workers : /\ wk[v].pc \in {"sub", "subdec"}
                                        /\ wk[v].owner = w})

\* C13: the inner executor returns only after all the subtasks of the
\* system have returned.  While worker w is in the executor its counter is
\* the number of posted subtasks that have not finished, so when the wait
\* ends (the subtask of the calling thread has returned and the counter is
\* zero) and ever after, none of its subtasks is queued or running.
C13_ReturnsAfterAllSubtasks ==
    \A w \in Workers :
        /\ wk[w].pc \in {"own", "wait"} => inner[w] = PendingSubtasks(w)
        /\ (wk[w].pc = "wait" /\ inner[w] = 0) => PendingSubtasks(w) = 0
        /\ wk[w].pc \notin {"own", "wait"} => PendingSubtasks(w) = 0

\* The executor of a system of two subtasks is about to return: a pool
\* worker ran one subtask and decremented the counter, the calling thread
\* ran the other.
C13_Witness ==
    \E w \in Workers :
        /\ wk[w].pc = "wait"
        /\ inner[w] = 0
        /\ nsub[wk[w].sid] = 2

(***************************************************************************)
(* Claims about the counter_blocker.                                       *)
(***************************************************************************)
\* C18: no counter_blocker is decremented while its counter is 0: the
\* assertion x_c > 0 of the decrement never fails, the counter of the
\* scheduler is decremented once for every system of the run and never
\* more often, and no counter is ever above the value it started with.
C18_NoDecrementAtZero ==
    /\ ~assertFailed
    /\ pcMain # "init" => latch <= chain_size(deps, roots)
    /\ \A w \in Workers : inner[w] <= MaxSubtasks - 1

\* C19: execute_and_wait_until_zero returns only when the counter is 0,
\* and when every thread gets to run it does return once the n decrements
\* were made, whether they fall before the wait or during it and whether
\* they notify one thread or all: no wake-up is lost.
C19_WaitReturnsAtZero ==
    /\ [](waiterPc = "returned" => cbCounter = 0)
    /\ [](cbAssert = FALSE)
    /\ <>(waiterPc = "returned")

\* The caller blocked in the wait with the counter above zero; several
\* threads have decremented it to zero since, notifying one thread, and
\* the caller is awake and about to lock the mutex and return.
C19_Witness ==
    /\ waiterPc = "blocked"
    /\ WaiterThread \notin cbBlocked
    /\ cbCounter = 0
    /\ Cardinality({d \in Decrementers : decPc[d] = "done"}) >= 2
    /\ cbNotify = "one"

(***************************************************************************)
(* Claims about the thread pool.                                           *)
(***************************************************************************)
\* Every task posted for system s is waiting in the queue or was dequeued
\* by exactly one worker.
PostedOnceEach ==
    \A s \in Systems :
        submitted[s] = CopiesIn(RunTask(s), queue) + started[s]

\* C20: no task posted in the thread pool is executed more than once or by
\* more than one worker, and every posted task is eventually executed:
\* there is no state in which a task waits in the queue and no thread can
\* ever take a step again.
C20_PostedTasksRunOnceEventually ==
    /\ PostedOnceEach
    /\ \A t \in BagToSet(queue) : t.kind = "sub" => CopiesIn(t, queue) = 1
    /\ queue # EmptyBag => ENABLED NextSched

\* C21: the destruction of the pool terminates.  Once every worker was
\* told to stop and dummy tasks are being posted, every worker leaves its
\* loop, whether it was blocked on the empty queue or busy with a task, and
\* is joined; a joined worker has left its loop.  For pools of 1 to
\* MaxPoolWorkers workers.
C21_ShutdownTerminates ==
    /\ [](\A w \in plJoined : plPc[w] = "out" /\ plState[w] = "stopped")
    /\ [](plMain = "done" => plJoined = PoolWorkers)
    /\ (plMain = "post") ~> (plMain = "done")

\* Every worker was told to stop and the destructor posts dummy tasks
\* while one worker is busy with a task and another one is blocked on the
\* empty queue.
C21_Witness ==
    /\ plMain = "post"
    /\ plQueue = [task |-> 0, dummy |-> 0]
    /\ \E w, v \in PoolWorkers :
          /\ plPc[w] = "task" /\ plState[w] = "stopped"
          /\ plPc[v] = "wait" /\ plState[v] = "stopped"

\* C23: (as claimed) an add_component(k, id) on an alive entity whose
\* subscriptions are up to date, followed by remove_component(k, id) in
\* the same step or after a refresh, with no other operation on id, leaves
\* the bitset of id as it was and, after the next refresh, id subscribed
\* to the instances it was subscribed to before the add.
C23_AddRemoveRestores ==
    /\ [][(pair.phase = "added" /\ pair'.phase = "removed") =>
             metadata'[pair.e].bitset = pair.bitset]_vars
    /\ [](pair.phase = "refreshed" =>
             \A i \in Instances :
                pair.e \in subscribed[i] <=> i \in matching(pair.bitset))

\* C24: (as claimed) when a step whose body performed no operation is
\* over, the entity table, the component stores and the subscription sets
\* are what they were when the step began.
C24_EmptyStepChangesNothing ==
    (refreshed /\ observing /\ snap.idle) => Tables = snap.tables

\* C25: execute_systems_from called with no start system returns without
\* blocking (the counter it waits for is zero), runs no system, starts no
\* subtask and posts nothing in the thread pool.
C25_EmptyRootsReturn ==
    roots = {} =>
       /\ pcMain = "waiting" => latch = 0
       /\ queue = EmptyBag
       /\ \A s \in Systems :
             /\ submitted[s] = 0
             /\ started[s] = 0
             /\ active[s] = 0
             /\ finished[s] = 0
       /\ \A w \in Workers : wk[w] = Idle /\ inner[w] = 0

\* execute_systems_from, called with no start system on a signature list
\* that has dependencies, has returned.
C25_Witness ==
    /\ roots = {}
    /\ pcMain = "returned"
    /\ \E s \in Systems : deps[s] # {}

\* C27: (as claimed) a processing function that fails does not keep
\* execute_systems_from from returning: the failure is caught in the
\* worker, the counters are decremented and the caller is woken up, so the
\* caller is never left waiting in a terminated process.
C27_FailureStillReturns == pcMain # "terminated"

\* C28: (as claimed) after a processing function failed during a step the
\* refresh of the step still runs: no step is left in its step function
\* by the failure.
C28_RefreshAfterFailure ==
    \A j \in 1..Len(stack) : stack[j].pc # "terminated"

\* C26: (as claimed) with a fixed entity limit, a create_entity called
\* when no id is free, by the step function or by a deferred function,
\* returns CapacityExhausted and leaves the alive entities, the bitsets, the
\* generations, the free ids and the subscription sets unchanged (and the
\* component stores and the refresh state with them).
C26_CreateFailsCleanly ==
    [][(created' # "none" /\ free_ids = {}) =>
          /\ created' = "CapacityExhausted"
          /\ UNCHANGED <<metadata, free_ids, subscribed, storage,
                         refresh_state, opFault>>]_vars

\* The sizes of the kill sets of the subtask states v, added up.
RECURSIVE KillSetSizes(_)
KillSetSizes(v) ==
    IF v = <<>> THEN 0
    ELSE Cardinality(Head(v).to_kill) + KillSetSizes(Tail(v))

\* ReclaimDeadEntities is performed in this step of the context.
Reclaiming == InStage("ReclaimDeadEntities") /\ stack' # stack

\* The entities this step of the context reclaims.
ReclaimedNow == {e \in EntityIds : Reclaimed(e)}

\* C29: (as claimed) the sizes of the kill sets of all subtasks of all
\* systems, added up, are at most the number of entities the refresh of
\* the step reclaims.
C29_KillSetSizesAtMostReclaimed ==
    [][Reclaiming =>
          KillSetSizes(states[1]) + KillSetSizes(states[2])
             <= Cardinality(ReclaimedNow)]_vars

\* C29: (amended) every entity in the kill set of a subtask is reclaimed by
\* the refresh, so the number of distinct entities in the kill sets is at
\* most the number of entities the refresh reclaims; an entity marked by
\* subtasks of two systems is in two kill sets and is reclaimed once.
C29_KillSetsReclaimed ==
    [][Reclaiming =>
          /\ \A i \in Instances : \A j \in 1..Len(states[i]) :
                states[i][j].to_kill \subseteq ReclaimedNow
          /\ Cardinality(UNION {UNION {states[i][j].to_kill :
                                          j \in 1..Len(states[i])} :
                                   i \in Instances})
                <= Cardinality(ReclaimedNow)]_vars

\* The refresh has reclaimed an entity that the subtasks of both systems
\* had marked as dead during the step.
C29_Witness ==
    /\ InStage("MatchEntitiesToSystems")
    /\ \E e \in EntityIds :
          /\ e \in free_ids
          /\ e \in refresh_state.to_kill
          /\ \A i \in Instances :
                states[i] # <<>> /\ e \in states[i][1].to_kill

\* C30: while a system executes, no subscription set, bitset, generation,
\* free id or component store changes: marking entities as dead and
\* pushing deferred functions only fills the states of the subtasks of the
\* executing instance, so an entity marked by one system is still
\* subscribed and has its components when a later system of the step runs.
C30_SystemExecutionFrame ==
    [][states' # states =>
          /\ UNCHANGED <<metadata, free_ids, subscribed, storage>>
          /\ Cardinality({i \in Instances : states'[i] # states[i]}) = 1]_vars

\* In a step function both systems have marked the same entity as dead:
\* the entity is still alive, subscribed to both, with all its components.
C30_Witness ==
    /\ InBody
    /\ \E e \in EntityIds :
          /\ e \in dead
          /\ alive(free_ids, e)
          /\ metadata[e].bitset = Components
          /\ \A k \in Components : e \in storage[k]
          /\ \A i \in Instances :
                /\ e \in subscribed[i]
                /\ states[i] # <<>>
                /\ e \in states[i][1].to_kill

\* An operation of the step proxy, or a system execution, is performed by
\* the step function of the innermost open step.
InStepBody == InBody /\ stack' = stack

\* C31: (as claimed) while a step function runs, no operation the step
\* proxy offers changes a bitset, a generation or the free ids.
C31_StepBodyLeavesEntityTable ==
    [][InStepBody => UNCHANGED <<metadata, free_ids>>]_vars

\* C31: (amended) an operation of the step proxy changes no generation and
\* no subscription set and gives no id back to the free ids; it takes at
\* most one id from the free ids (create_entity) and changes at most one
\* bit of the bitset of one alive entity (add_component, remove_component).
C31_StepBodyMutatesAtOnce ==
    [][InStepBody =>
          /\ \A e \in EntityIds : metadata'[e].counter = metadata[e].counter
          /\ subscribed' = subscribed
          /\ free_ids' \subseteq free_ids
          /\ Cardinality(free_ids \ free_ids') <= 1
          /\ \A e \in EntityIds :
                metadata'[e].bitset # metadata[e].bitset =>
                   /\ alive(free_ids, e)
                   /\ \A x \in EntityIds \ {e} :
                         metadata'[x].bitset = metadata[x].bitset
                   /\ Cardinality((metadata'[e].bitset \ metadata[e].bitset)
                         \cup (metadata[e].bitset \ metadata'[e].bitset)) = 1]_vars

\* The step function of the first step has created an entity, given it a
\* component and marked it as dead: the id is taken, the bit is set, the
\* generation is the initial one and no instance has the entity.
C31_Witness ==
    /\ InBody
    /\ steps = 1
    /\ \E e \in EntityIds :
          /\ alive(free_ids, e)
          /\ metadata[e].bitset # {}
          /\ metadata[e].counter = 0
          /\ e \in refresh_state.to_kill
          /\ \A i \in Instances : e \notin subscribed[i]

\* C32: (as claimed) a deferred function is called once, by the refresh of
\* the step whose system execution pushed it: the refresh of a step whose
\* step function performed no operation, and so executed no system, calls
\* no deferred function.
C32_DeferredExecutedOnce ==
    (observing /\ snap.idle /\ stack # <<>>) => Top.ran = <<>>

\* The nodes bf_traversal::execute traverses from the start systems.
Traversed == bf_traversal(deps, DescendingSeq(roots), <<>>)

\* C33: on every acyclic signature list and for all independent start
\* systems, the breadth-first traversal returns every system reachable from
\* the start systems along dependent edges, start systems included, each
\* exactly once and no other system (checked before the scheduler starts:
\* the signature list and the start systems do not change); so the counter
\* the scheduler starts with is the number of systems of the chain.
C33_ChainSizeCountsReachable ==
    /\ [](pcMain = "init" =>
             /\ SeqToSet(Traversed) = Reach
             /\ \A a, b \in 1..Len(Traversed) :
                   Traversed[a] = Traversed[b] => a = b
             /\ chain_size(deps, roots) = Cardinality(Reach))
    /\ [][(pcMain = "init" /\ pcMain' = "waiting") =>
             latch' = Cardinality(Reach)]_vars

\* The scheduler has just started on a chain in which the last system is
\* reached along two paths from the only start system: the counter is the
\* number of systems, no task has been taken.
C33_Witness ==
    /\ pcMain = "waiting"
    /\ roots = {1}
    /\ {2, 3} \subseteq deps[4]
    /\ 1 \in deps[2] \cap deps[3]
    /\ latch = 4
    /\ \A s \in Systems : started[s] = 0

\* C34: (as claimed) when the start systems leave out a source of the
\* signature list, a system of the chain that also depends on a system
\* outside the chain is posted and run exactly once, not before the
\* dependencies it has in the chain have completed, and has completed when
\* execute_systems_from has returned; no system outside the chain is posted
\* or run.
C34_PartialRootsRunOnce ==
    /\ \A s \in Systems \ Reach : submitted[s] = 0 /\ started[s] = 0
    /\ \A s \in Reach :
          deps[s] \ Reach # {} =>
             /\ submitted[s] <= 1
             /\ started[s] <= 1
             /\ active[s] > 0 =>
                   \A d \in deps[s] \cap Reach : finished[d] >= 1
             /\ pcMain = "returned" => finished[s] = 1

\* C35: (as claimed) after every refresh of a step that is not opened
\* inside another one, an instance that requires no component is
\* subscribed to the alive entities and to no other id: no free
\* (reclaimed) id is subscribed, every alive entity is.
C35_EmptyBitsetSubscribesAlive ==
    (refreshed /\ stack = <<>>) =>
        \A i \in Instances :
            required(i) = {} => subscribed[i] = EntityIds \ free_ids

(***************************************************************************)
(* Claims about the particle simulation.                                   *)
(***************************************************************************)
\* Some thread is inside the execution of system s: in a subtask, waiting
\* for the subtasks or in the adapter code that follows them; or a subtask
\* of s is still to be taken from the queue.
Executing(s) ==
    \/ \E w \in Workers :
          wk[w].sid = s /\ wk[w].pc \in {"own", "sub", "subdec", "wait", "post"}
    \/ \E t \in BagToSet(queue) : t.kind = "sub" /\ t.sid = s

\* C36: (as claimed) fade is a dependent of life: no subtask of fade runs
\* before life has completed, so none runs while a subtask of life (which
\* writes the life component fade reads) is running.
C36_FadeAfterLife ==
    active[particle.fade] > 0 =>
        /\ finished[particle.life] >= 1
        /\ active[particle.life] = 0

\* C37: a subtask of collision runs only when the execution of
\* spatial_partition has returned from its adapter: clear_cells, every
\* subtask and the for_outputs pass that fills the grid are over, and the
\* dependent was posted only then.
C37_CollisionAfterAdapterReturned ==
    /\ active[particle.collision] > 0 =>
          /\ finished[particle.spatial_partition] >= 1
          /\ ~Executing(particle.spatial_partition)
    /\ submitted[particle.collision] > 0 =>
          finished[particle.spatial_partition] >= 1
    /\ \A w \in Workers :
          (wk[w].sid = particle.spatial_partition /\ wk[w].pc = "post") =>
             /\ started[particle.collision] = 0
             /\ submitted[particle.collision] = 0

\* A subtask of collision is running after spatial_partition was executed
\* in two subtasks, one of them by another worker of the pool.
C37_Witness ==
    /\ active[particle.collision] > 0
    /\ deps = ParticleDeps
    /\ nsub[particle.spatial_partition] = 2
    /\ finished[particle.spatial_partition] = 1
    /\ submitted[particle.collision] = 1

\* C38: (as claimed) when the refresh of an outermost step has finished,
\* also of one whose step function opened other steps, every entity that
\* was marked as dead has been reclaimed and every alive entity is
\* subscribed to the instances its bitset matches (P1 for the entities
\* the step functions created, killed or modified).
C38_NestedStepKeepsP1 ==
    (refreshed /\ stack = <<>>) =>
        /\ dead = {}
        /\ \A e \in EntityIds : \A i \in Instances :
              (alive(free_ids, e) /\ matches(metadata[e].bitset, required(i)))
                  => e \in subscribed[i]

(***************************************************************************)
(* Claims about the entity creation/destruction benchmark.                 *)
(***************************************************************************)
\* The ids in use: alive, or killed and not reclaimed yet.
InUse == EntityIds \ free_ids

\* C39: (as claimed) in the benchmark with initial_particle_count initial
\* entities and a fixed capacity of at least twice as many, create_entity
\* never fails (no call that creates an entity is out of contract, as one
\* made with no free id is), each death defers at most one creation, at
\* most 2 * initial_particle_count ids are in use at any point, inside a
\* refresh too, and at most initial_particle_count entities are alive after
\* each refresh.
C39_BenchmarkWithinCapacity ==
    /\ ~(created # "none" /\ opFault)
    /\ \A j \in 1..Len(states[life]) :
          Len(states[life][j].deferred) <= Cardinality(states[life][j].to_kill)
    /\ Cardinality(InUse) <= 2 * initial_particle_count
    /\ (refreshed /\ stack = <<>>) =>
          Cardinality(InUse) <= initial_particle_count

(***************************************************************************)
(* Claims about the entity metadata storage.                               *)
(***************************************************************************)
\* C40: (as claimed) the free ids and the alive ids, the ones alive() tells
\* not to be in _free_ids, are disjoint and cover [0, capacity): the ids
\* _free_ids contains are the ids that are free, and they are the ids create
\* can return, so that create returns an id that was free and two create
\* calls with no reclaim in between return different ids.
C40_FreeAndAlivePartition ==
    /\ ~ssFault
    /\ {i \in Range : ss_contains(ssS, i)} = ssMembers
    /\ stored_ids(ssD, ssLast) = ssMembers
====
